---------------------------- MODULE Spec2Model ----------------------------
(***************************************************************************)
(* Model of the attribution merge of the arbitrage manager dashboard:      *)
(* backend/integrate_data.py (merge_campaign_data) together with the       *)
(* revenue source that feeds it, backend/system1_client.py.                *)
(*                                                                         *)
(* Python floats are modelled as exact rationals [n, d] in lowest terms,   *)
(* so "equal" below means equal before floating-point rounding.  Python    *)
(* dicts are modelled as sequences of entries in insertion order, which is *)
(* the order Python iterates them in.  Identifiers are sequences of        *)
(* one-character strings so that str.isdigit() is computed, not assumed.   *)
(***************************************************************************)
EXTENDS Integers, Sequences, FiniteSets, TLC

(***************************************************************************)
(* Bounds of the model.                                                    *)
(***************************************************************************)
MaxRecords == 3          \* cost records plus hourly revenue rows of one merge
MaxClicks == 2           \* link clicks of a cost record: 0, 1 or MaxClicks
MaxSpend == 2            \* spend of a cost record: 0 or MaxSpend
MaxRevenue == 3          \* revenue of an hourly row: -1, 0 or MaxRevenue
MaxWidgetClicks == 3     \* an hourly row has no engagement, or this many
MaxWidgetSearches == 2   \* widget clicks and this many widget searches
MaxRows == 101           \* merged records handed to one ingest_to_bigquery call
MaxOldRows == 2          \* rows in the metrics table before that call
MaxTotalLinkClicks == 3  \* a 7-day total of link clicks other than the test's
MaxTotalWidgetClicks == 8 \* a 7-day total of widget clicks other than the test's

(***************************************************************************)
(* Exact rational arithmetic standing in for Python floats.                *)
(***************************************************************************)
Abs(x) == IF x < 0 THEN -x ELSE x

RECURSIVE GCD(_, _)
GCD(a, b) == IF b = 0 THEN a ELSE GCD(b, a % b)

\* A zero denominator is kept as [0, 0]: the value of a division that raised
\* ZeroDivisionError, and of everything computed from it.
Rat(n, d) ==
    IF d = 0 THEN [n |-> 0, d |-> 0]
    ELSE LET s == IF d < 0 THEN -1 ELSE 1
             g == GCD(Abs(n), Abs(d))
         IN  [n |-> (s * n) \div g, d |-> (s * d) \div g]

Undefined(a) == a.d = 0

RInt(i) == [n |-> i, d |-> 1]
RZero == RInt(0)
RAdd(a, b) == Rat(a.n * b.d + b.n * a.d, a.d * b.d)
RSub(a, b) == Rat(a.n * b.d - b.n * a.d, a.d * b.d)
RMul(a, b) == Rat(a.n * b.n, a.d * b.d)
RDiv(a, b) == Rat(a.n * b.d, a.d * b.n)
RPos(a) == a.n > 0

\* int(x): truncation toward zero
PyInt(a) ==
    IF Undefined(a) THEN 0
    ELSE IF a.n >= 0 THEN a.n \div a.d ELSE -((-a.n) \div a.d)

(***************************************************************************)
(* Identifiers.                                                            *)
(***************************************************************************)
Digits == {"0", "1", "2", "3", "4", "5", "6", "7", "8", "9"}

\* str.isdigit(): non-empty and every character a digit
IsDigit(s) == Len(s) > 0 /\ \A i \in 1..Len(s) : s[i] \in Digits

\* ['{{adset.id}}', '\\N', '', 'null', 'undefined']
Placeholders ==
    { <<"{", "{", "a", "d", "s", "e", "t", ".", "i", "d", "}", "}">>,
      <<"\\", "N">>,
      <<>>,
      <<"n", "u", "l", "l">>,
      <<"u", "n", "d", "e", "f", "i", "n", "e", "d">> }

Id42 == <<"4", "2">>
Id7 == <<"7">>
IdNull == <<"n", "u", "l", "l">>
IdText == <<"a", "b", "1">>

AdSetIds == {Id42, Id7}
AdGroupIds == {Id42, IdNull, IdText}
Dates == {"2025-01-01", "2025-01-02"}

\* Python's None where a string is expected: a sequence no string is equal
\* to, as every element of a string is a single character.
None == <<"None">>

\* item.get('date_start') of an insight without a date
NoDate == "None"

(***************************************************************************)
(* Ad set names and the market derived from them.                          *)
(***************************************************************************)
NameBra == <<"B", "R", "A", "_", "1">>
NameMex == <<"M", "E", "X", "_", "1">>
NameMexBra == <<"M", "E", "X", "_", "B", "R", "A", "_">>
NameUsa == <<"U", "S", "A", "_", "1">>
NameLower == <<"b", "r", "a", "_", "1">>

AdSetNames == {NameBra, NameMex, NameMexBra, NameUsa, NameLower}

\* sub in name
Contains(name, sub) ==
    \E i \in 1..(Len(name) - Len(sub) + 1) :
        SubSeq(name, i, i + Len(sub) - 1) = sub

\* 'BR' if 'BRA_' in ad_set_name else ('MX' if 'MEX_' in ad_set_name else 'OTHER');
\* the test raises TypeError when ad_set_name is None
MarketRaises(ad_set_name) == ad_set_name = None

Market(ad_set_name) ==
    IF Contains(ad_set_name, <<"B", "R", "A", "_">>) THEN "BR"
    ELSE IF Contains(ad_set_name, <<"M", "E", "X", "_">>) THEN "MX"
    ELSE "OTHER"

\* f"[S1 Only] {ad_group_id}"
S1OnlyName(ad_group_id) ==
    <<"[", "S", "1", " ", "O", "n", "l", "y", "]", " ">> \o ad_group_id


(***************************************************************************)
(* Input records.  A cost record is one row of                             *)
(* MetaAdsClient.get_adsets_insights(level='ad'); an hourly record is one  *)
(* row parsed from a System1 report.                                       *)
(***************************************************************************)
CostRecords ==
    [campaign_id : {"1001"}, campaign_name : {"Campaign 1"},
     ad_id : {"5001"}, ad_name : {"Ad 1"},
     ad_set_id : AdSetIds, ad_set_name : {NameBra}, date : Dates,
     link_clicks : {0, 1, MaxClicks}, spend : {RZero, RInt(MaxSpend)},
     cpc : {Rat(1, 2)}, ctr : {Rat(3, 2)}, purchases : {1}, searches : {4}]

Engagements ==
    { [widget_clicks |-> 0, widget_searches |-> 0],
      [widget_clicks |-> MaxWidgetClicks, widget_searches |-> MaxWidgetSearches] }

HourlyRecords ==
    { [ad_group_id |-> id, date |-> date, revenue |-> revenue,
       widget_clicks |-> e.widget_clicks, widget_searches |-> e.widget_searches] :
      id \in AdGroupIds, date \in Dates,
      revenue \in {RInt(-1), RZero, RInt(MaxRevenue)}, e \in Engagements }

(***************************************************************************)
(* Records as the two clients build them from what the APIs return, the    *)
(* incomplete ones included: item.get('adset_id'), item.get('adset_name')  *)
(* and item.get('date_start') are None for an insight without the field;   *)
(* row.get('ADGROUP ID', '') is '' and row.get('DATA DATE') is None for a  *)
(* report without the column.                                              *)
(***************************************************************************)
RawCostRecords ==
    [campaign_id : {"1001"}, campaign_name : {"Campaign 1"},
     ad_id : {"5001"}, ad_name : {"Ad 1"},
     ad_set_id : {Id42, None}, ad_set_name : AdSetNames \cup {None},
     date : {"2025-01-01", NoDate},
     link_clicks : {0, MaxClicks}, spend : {RInt(MaxSpend)},
     cpc : {Rat(1, 2)}, ctr : {Rat(3, 2)}, purchases : {1}, searches : {4}]

RawHourlyRecords ==
    [ad_group_id : {Id42, <<>>}, date : {"2025-01-01", NoDate},
     revenue : {RInt(MaxRevenue)},
     widget_clicks : {MaxWidgetClicks}, widget_searches : {MaxWidgetSearches}]

VARIABLES
    meta_data,              \* cost records returned by the cost source
    portals,                \* hourly rows of the report of each System1 portal
    system1_data,           \* revenue records returned by the revenue source
    system1_lookup,         \* dict (ad_group_id, date) -> revenue record
    adset_groups,           \* dict (ad_set_id, date) -> {total_clicks, ads}
    merged_data,            \* the list merge_campaign_data builds and returns
    attributed_data,        \* merged_data as the attribution loop left it
    matched_system1_keys,   \* set of the cost group keys
    orphan_records,         \* list of (date, record) of tracking-failure orphans
    orphan_totals,          \* orphan_count, orphan_revenue, orphan_widget_*
    orphan_by_date,         \* dict date -> summed orphan metrics
    legitimate_orphan_count,
    pc,                     \* the step of merge_campaign_data to run next
    run,                    \* which invocation of merge_campaign_data this is
    first_result,           \* what the first invocation returned
    summary,                \* the figures print_summary computed
    reset_table,            \* the reset_table argument of ingest_to_bigquery
    table_before,           \* rows of the metrics table when ingest was called
    metrics_table,          \* rows of the BigQuery metrics table
    insert_log,             \* the INSERT statements issued: rows and outcome
    inserted_count,         \* the count ingest_to_bigquery reports
    bigquery_client,        \* main.bigquery_client: "None" or "Client"
    query_result,           \* what the 7-day totals query of a request gave
    response,               \* the HTTP response of the last request
    request,                \* the last HTTP request: endpoint and parameters
    user_tokens,            \* main.user_tokens: session_id -> token_data
    issued_states,          \* the state tokens /api/auth/google has returned
    callback_log,           \* the callbacks that stored a token
    fetch_pc,               \* where System1Client._fetch_from_api is
    attempt,                \* its local of that name
    status_requests,        \* the status requests it has issued
    status_data,            \* what the last status request gave
    fetch_result            \* what it returned

mergeVars ==
    <<meta_data, portals, system1_data, system1_lookup, adset_groups,
      merged_data, attributed_data, matched_system1_keys, orphan_records,
      orphan_totals, orphan_by_date, legitimate_orphan_count>>

ingestVars ==
    <<reset_table, table_before, metrics_table, insert_log, inserted_count>>

apiVars == <<bigquery_client, query_result, response>>

serverVars == <<request, user_tokens, issued_states, callback_log>>

fetchVars == <<fetch_pc, attempt, status_requests, status_data, fetch_result>>

vars ==
    <<meta_data, portals, system1_data, system1_lookup, adset_groups,
      merged_data, attributed_data, matched_system1_keys, orphan_records,
      orphan_totals, orphan_by_date, legitimate_orphan_count, pc, run,
      first_result, summary, ingestVars, apiVars, serverVars, fetchVars>>

(***************************************************************************)
(* Dicts in insertion order: a sequence of [key, val] entries.             *)
(***************************************************************************)
KeyIndex(dict, key) ==
    IF \E i \in 1..Len(dict) : dict[i].key = key
    THEN CHOOSE i \in 1..Len(dict) : dict[i].key = key
    ELSE 0

DictSet(dict, key, val) ==
    LET i == KeyIndex(dict, key)
    IN  IF i = 0 THEN Append(dict, [key |-> key, val |-> val])
        ELSE [dict EXCEPT ![i].val = val]

DictKeys(dict) == {dict[i].key : i \in 1..Len(dict)}

(***************************************************************************)
(* System1Client: aggregation of hourly rows, one list per portal.         *)
(***************************************************************************)
ZeroMetrics == [revenue |-> RZero, widget_clicks |-> 0, widget_searches |-> 0]

AddMetrics(m, record) ==
    [revenue |-> RAdd(m.revenue, record.revenue),
     widget_clicks |-> m.widget_clicks + record.widget_clicks,
     widget_searches |-> m.widget_searches + record.widget_searches]

RECURSIVE AggregateLoop(_, _)
AggregateLoop(hourly_data, aggregated) ==
    IF hourly_data = <<>> THEN aggregated
    ELSE LET record == Head(hourly_data)
             key == <<record.ad_group_id, record.date>>
             i == KeyIndex(aggregated, key)
             old == IF i = 0 THEN ZeroMetrics ELSE aggregated[i].val
         IN  AggregateLoop(Tail(hourly_data),
                           DictSet(aggregated, key, AddMetrics(old, record)))

AggregateHourlyData(hourly_data) ==
    LET aggregated == AggregateLoop(hourly_data, <<>>)
    IN  [i \in 1..Len(aggregated) |->
            [ad_group_id |-> aggregated[i].key[1],
             date |-> aggregated[i].key[2],
             revenue |-> aggregated[i].val.revenue,
             widget_clicks |-> aggregated[i].val.widget_clicks,
             widget_searches |-> aggregated[i].val.widget_searches]]

RECURSIVE GetRevenueData(_)
GetRevenueData(ps) ==
    IF ps = <<>> THEN <<>>
    ELSE AggregateHourlyData(Head(ps)) \o GetRevenueData(Tail(ps))

(***************************************************************************)
(* merge_campaign_data, step 3: the System1 lookup dictionary.             *)
(***************************************************************************)
RECURSIVE LookupLoop(_, _)
LookupLoop(data, lookup) ==
    IF data = <<>> THEN lookup
    ELSE LET record == Head(data)
             key == <<record.ad_group_id, record.date>>
         IN  LookupLoop(Tail(data), DictSet(lookup, key, record))

BuildLookup(data) == LookupLoop(data, <<>>)

\* system1_lookup.get(key, {}) followed by .get(field, 0)
LookupGet(lookup, key) ==
    LET i == KeyIndex(lookup, key)
    IN  IF i = 0 THEN ZeroMetrics
        ELSE [revenue |-> lookup[i].val.revenue,
              widget_clicks |-> lookup[i].val.widget_clicks,
              widget_searches |-> lookup[i].val.widget_searches]

(***************************************************************************)
(* Step 4a: group the Meta ads by (ad_set_id, date).                       *)
(***************************************************************************)
\* mutant: a record is put in front of the members of its group
RECURSIVE GroupLoopPrepend(_, _)
GroupLoopPrepend(data, groups) ==
    IF data = <<>> THEN groups
    ELSE LET record == Head(data)
             key == <<record.ad_set_id, record.date>>
             i == KeyIndex(groups, key)
             old == IF i = 0 THEN [total_clicks |-> 0, ads |-> <<>>]
                    ELSE groups[i].val
             new == [total_clicks |-> old.total_clicks + record.link_clicks,
                     ads |-> <<record>> \o old.ads]
         IN  GroupLoopPrepend(Tail(data), DictSet(groups, key, new))

RECURSIVE GroupLoop(_, _)
GroupLoop(data, groups) ==
    IF data = <<>> THEN groups
    ELSE LET record == Head(data)
             key == <<record.ad_set_id, record.date>>
             i == KeyIndex(groups, key)
             old == IF i = 0 THEN [total_clicks |-> 0, ads |-> <<>>]
                    ELSE groups[i].val
             new == [total_clicks |-> old.total_clicks + record.link_clicks,
                     ads |-> Append(old.ads, record)]
         IN  GroupLoop(Tail(data), DictSet(groups, key, new))

GroupAds(data) == GroupLoop(data, <<>>)

(***************************************************************************)
(* Step 4b: attribution of each group's System1 metrics to its ads.        *)
(***************************************************************************)
\* mutant: integer division of the clicks
AttributionShareFloorDiv(link_clicks, total_clicks) ==
    IF total_clicks > 0 THEN RInt(link_clicks \div total_clicks) ELSE RZero

\* mutant: a full share when the group has no clicks
AttributionShareFullWhenNoClicks(link_clicks, total_clicks) ==
    IF total_clicks > 0 THEN Rat(link_clicks, total_clicks) ELSE RInt(1)

AttributionShare(link_clicks, total_clicks) ==
    IF total_clicks > 0 THEN Rat(link_clicks, total_clicks) ELSE RZero

\* mutant: rounding half up instead of truncating
CountShareRounded(count, share) ==
    PyInt(RAdd(RMul(RInt(count), share), Rat(1, 2)))

\* int(count * share)
CountShare(count, share) == PyInt(RMul(RInt(count), share))

Profit(revenue, spend) == RSub(revenue, spend)

Roas(revenue, spend) ==
    IF RPos(spend) THEN RSub(RDiv(revenue, spend), RInt(1)) ELSE RZero

WidgetCtr(widget_clicks, link_clicks) ==
    IF link_clicks > 0 THEN Rat(widget_clicks, link_clicks) ELSE RZero

Rpc(revenue, widget_clicks) ==
    IF widget_clicks > 0 THEN RDiv(revenue, RInt(widget_clicks)) ELSE RZero

MergedRecord(meta_record, ad_set_id, date, total_clicks, s1) ==
    LET link_clicks == meta_record.link_clicks
        share == AttributionShare(link_clicks, total_clicks)
        revenue == RMul(s1.revenue, share)
        widget_clicks == CountShare(s1.widget_clicks, share)
        widget_searches == CountShare(s1.widget_searches, share)
        spend == meta_record.spend
    IN  [campaign_id |-> meta_record.campaign_id,
         campaign_name |-> meta_record.campaign_name,
         ad_set_id |-> ad_set_id,
         ad_set_name |-> meta_record.ad_set_name,
         ad_id |-> meta_record.ad_id,
         ad_name |-> meta_record.ad_name,
         market |-> Market(meta_record.ad_set_name),
         date |-> date,
         spend |-> spend,
         revenue |-> revenue,
         profit |-> Profit(revenue, spend),
         roas |-> Roas(revenue, spend),
         link_clicks |-> link_clicks,
         widget_clicks |-> widget_clicks,
         widget_searches |-> widget_searches,
         searches |-> meta_record.searches,
         purchases |-> meta_record.purchases,
         meta_cpc |-> meta_record.cpc,
         meta_ctr |-> meta_record.ctr,
         widget_ctr |-> WidgetCtr(widget_clicks, link_clicks),
         rpc |-> Rpc(revenue, widget_clicks)]

AttributeGroup(entry, lookup) ==
    LET ad_set_id == entry.key[1]
        date == entry.key[2]
        s1 == LookupGet(lookup, <<ad_set_id, date>>)
        ads == entry.val.ads
    IN  [i \in 1..Len(ads) |->
            MergedRecord(ads[i], ad_set_id, date, entry.val.total_clicks, s1)]

RECURSIVE AttributeLoop(_, _, _)
AttributeLoop(groups, lookup, merged) ==
    IF groups = <<>> THEN merged
    ELSE AttributeLoop(Tail(groups), lookup,
                       merged \o AttributeGroup(Head(groups), lookup))

\* an exception raised while a record is built or recalculated ends the
\* merge: the market test on a missing name (TypeError), or a division whose
\* denominator is 0 (ZeroDivisionError)
RecordRaises(r) ==
    \/ Undefined(r.revenue) \/ Undefined(r.profit) \/ Undefined(r.roas)
    \/ Undefined(r.widget_ctr) \/ Undefined(r.rpc)

Raises(merged) == \E i \in DOMAIN merged : RecordRaises(merged[i])

AttributionRaises(data, merged) ==
    \/ \E i \in DOMAIN data : MarketRaises(data[i].ad_set_name)
    \/ Raises(merged)

\* mutant: the list of the previous invocation is reused
StaleMergedData == merged_data

\* merged_data = []
NewMergedData == <<>>

(***************************************************************************)
(* Step 5: tracking-failure orphans and their redistribution by date.      *)
(***************************************************************************)
\* mutant: only the placeholder tokens count as tracking failures
IsTrackingIssuePlaceholderOnly(ad_group_id) == ad_group_id \in Placeholders

\* mutant: every unmatched id counts as a tracking failure
IsTrackingIssueAnyId(ad_group_id) == ad_group_id = ad_group_id

IsTrackingIssue(ad_group_id) ==
    ad_group_id \in Placeholders \/ ~IsDigit(ad_group_id)

\* mutant: revenue >= 0
IsOrphanRevenueNonNegative(revenue) == revenue.n >= 0

IsOrphanRevenue(revenue) == RPos(revenue)

NoOrphans ==
    [orphan_count |-> 0, orphan_revenue |-> RZero,
     orphan_widget_clicks |-> 0, orphan_widget_searches |-> 0,
     orphan_records |-> <<>>]

RECURSIVE CollectOrphansLoop(_, _, _)
CollectOrphansLoop(entries, matched, acc) ==
    IF entries = <<>> THEN acc
    ELSE LET key == Head(entries).key
             system1_record == Head(entries).val
             revenue == system1_record.revenue
             hit == /\ key \notin matched
                    /\ IsOrphanRevenue(revenue)
                    /\ IsTrackingIssue(key[1])
             next ==
                 IF hit
                 THEN [orphan_count |-> acc.orphan_count + 1,
                       orphan_revenue |-> RAdd(acc.orphan_revenue, revenue),
                       orphan_widget_clicks |->
                           acc.orphan_widget_clicks + system1_record.widget_clicks,
                       orphan_widget_searches |->
                           acc.orphan_widget_searches + system1_record.widget_searches,
                       orphan_records |->
                           Append(acc.orphan_records, <<key[2], system1_record>>)]
                 ELSE acc
         IN  CollectOrphansLoop(Tail(entries), matched, next)

CollectOrphans(lookup, matched) == CollectOrphansLoop(lookup, matched, NoOrphans)

\* mutant: the last orphan of a date replaces the sums of the earlier ones
RECURSIVE OrphanByDateLoopLastWins(_, _)
OrphanByDateLoopLastWins(records, by_date) ==
    IF records = <<>> THEN by_date
    ELSE LET date == Head(records)[1]
             record == Head(records)[2]
         IN  OrphanByDateLoopLastWins(
                 Tail(records),
                 DictSet(by_date, date, AddMetrics(ZeroMetrics, record)))

RECURSIVE OrphanByDateLoop(_, _)
OrphanByDateLoop(records, by_date) ==
    IF records = <<>> THEN by_date
    ELSE LET date == Head(records)[1]
             record == Head(records)[2]
             i == KeyIndex(by_date, date)
             old == IF i = 0 THEN ZeroMetrics ELSE by_date[i].val
         IN  OrphanByDateLoop(Tail(records),
                              DictSet(by_date, date, AddMetrics(old, record)))

GroupOrphansByDate(records) == OrphanByDateLoop(records, <<>>)

RECURSIVE SumLinkClicks(_, _)
SumLinkClicks(merged, date) ==
    IF merged = <<>> THEN 0
    ELSE (IF Head(merged).date = date THEN Head(merged).link_clicks ELSE 0)
         + SumLinkClicks(Tail(merged), date)

DateRecords(merged, date) == {i \in 1..Len(merged) : merged[i].date = date}

\* mutant: no share when the date has no clicks, as in the attribution step
RedistributionShareZeroWhenNoClicks(link_clicks, total_clicks, count) ==
    IF total_clicks > 0 THEN Rat(link_clicks, total_clicks) ELSE RZero

\* mutant: an equal share whatever the clicks
RedistributionShareEqualAlways(link_clicks, total_clicks, count) ==
    Rat(1, count)

RedistributionShare(link_clicks, total_clicks, count) ==
    IF total_clicks > 0 THEN Rat(link_clicks, total_clicks) ELSE Rat(1, count)

\* mutant: the derived metrics are not recalculated
AddOrphanShareStale(record, orphan_metrics, share) ==
    [record EXCEPT
        !.revenue = RAdd(record.revenue, RMul(orphan_metrics.revenue, share)),
        !.widget_clicks =
            record.widget_clicks + PyInt(RMul(RInt(orphan_metrics.widget_clicks), share)),
        !.widget_searches =
            record.widget_searches
                + PyInt(RMul(RInt(orphan_metrics.widget_searches), share))]

AddOrphanShare(record, orphan_metrics, share) ==
    LET revenue == RAdd(record.revenue, RMul(orphan_metrics.revenue, share))
        widget_clicks ==
            record.widget_clicks + CountShare(orphan_metrics.widget_clicks, share)
        widget_searches ==
            record.widget_searches + CountShare(orphan_metrics.widget_searches, share)
    IN  [record EXCEPT
            !.revenue = revenue,
            !.widget_clicks = widget_clicks,
            !.widget_searches = widget_searches,
            !.profit = Profit(revenue, record.spend),
            !.roas = Roas(revenue, record.spend),
            !.widget_ctr = WidgetCtr(widget_clicks, record.link_clicks),
            !.rpc = Rpc(revenue, widget_clicks)]

\* mutant: the orphan metrics of a date are shared among the records of
\* every date
RedistributeDateAllRecords(merged, date, orphan_metrics) ==
    LET date_records == DOMAIN merged
        total_clicks == SumLinkClicks(merged, date)
    IN  IF date_records = {} THEN merged
        ELSE [i \in 1..Len(merged) |->
                AddOrphanShare(
                    merged[i], orphan_metrics,
                    RedistributionShare(merged[i].link_clicks, total_clicks,
                                        Cardinality(date_records)))]

RedistributeDate(merged, date, orphan_metrics) ==
    LET date_records == DateRecords(merged, date)
        total_clicks == SumLinkClicks(merged, date)
    IN  IF date_records = {} THEN merged
        ELSE [i \in 1..Len(merged) |->
                IF i \in date_records
                THEN AddOrphanShare(
                         merged[i], orphan_metrics,
                         RedistributionShare(merged[i].link_clicks, total_clicks,
                                             Cardinality(date_records)))
                ELSE merged[i]]

\* mutant: break instead of continue on a date without records
RECURSIVE RedistributeLoopBreak(_, _)
RedistributeLoopBreak(by_date, merged) ==
    IF by_date = <<>> THEN merged
    ELSE IF DateRecords(merged, Head(by_date).key) = {} THEN merged
    ELSE RedistributeLoopBreak(Tail(by_date),
                               RedistributeDate(merged, Head(by_date).key,
                                                Head(by_date).val))

RECURSIVE RedistributeLoop(_, _)
RedistributeLoop(by_date, merged) ==
    IF by_date = <<>> THEN merged
    ELSE RedistributeLoop(Tail(by_date),
                          RedistributeDate(merged, Head(by_date).key,
                                           Head(by_date).val))

(***************************************************************************)
(* Step 6: legitimate orphans become records of their own.                 *)
(***************************************************************************)
IsLegitimate(ad_group_id) ==
    IsDigit(ad_group_id) /\ ad_group_id \notin Placeholders

\* mutant: widget_searches copied from widget_clicks
OrphanRecordSwapped(ad_group_id, date, system1_record) ==
    [campaign_id |-> "UNKNOWN",
     campaign_name |-> "Unknown Campaign",
     ad_set_id |-> ad_group_id,
     ad_set_name |-> S1OnlyName(ad_group_id),
     ad_id |-> "UNKNOWN",
     ad_name |-> "Unknown Ad",
     market |-> "OTHER",
     date |-> date,
     spend |-> RZero,
     revenue |-> system1_record.revenue,
     profit |-> system1_record.revenue,
     roas |-> RZero,
     link_clicks |-> 0,
     widget_clicks |-> system1_record.widget_clicks,
     widget_searches |-> system1_record.widget_clicks,
     searches |-> 0,
     purchases |-> 0,
     meta_cpc |-> RZero,
     meta_ctr |-> RZero,
     widget_ctr |-> RZero,
     rpc |-> IF system1_record.widget_clicks > 0
             THEN RDiv(system1_record.revenue, RInt(system1_record.widget_clicks))
             ELSE RZero]

OrphanRecord(ad_group_id, date, system1_record) ==
    LET revenue == system1_record.revenue
        widget_clicks == system1_record.widget_clicks
    IN  [campaign_id |-> "UNKNOWN",
         campaign_name |-> "Unknown Campaign",
         ad_set_id |-> ad_group_id,
         ad_set_name |-> S1OnlyName(ad_group_id),
         ad_id |-> "UNKNOWN",
         ad_name |-> "Unknown Ad",
         market |-> "OTHER",
         date |-> date,
         spend |-> RZero,
         revenue |-> revenue,
         profit |-> revenue,
         roas |-> RZero,
         link_clicks |-> 0,
         widget_clicks |-> widget_clicks,
         widget_searches |-> system1_record.widget_searches,
         searches |-> 0,
         purchases |-> 0,
         meta_cpc |-> RZero,
         meta_ctr |-> RZero,
         widget_ctr |-> RZero,
         rpc |-> IF widget_clicks > 0 THEN RDiv(revenue, RInt(widget_clicks))
                 ELSE RZero]

\* mutant: a legitimate orphan is emitted whatever its revenue
IsLegitimateOrphanAnyRevenue(key, system1_record, matched) ==
    /\ key \notin matched
    /\ IsLegitimate(key[1])

IsLegitimateOrphan(key, system1_record, matched) ==
    /\ key \notin matched
    /\ RPos(system1_record.revenue)
    /\ IsLegitimate(key[1])

RECURSIVE LegitimateLoop(_, _, _)
LegitimateLoop(entries, matched, merged) ==
    IF entries = <<>> THEN merged
    ELSE LET key == Head(entries).key
             system1_record == Head(entries).val
         IN  LegitimateLoop(
                 Tail(entries), matched,
                 IF IsLegitimateOrphan(key, system1_record, matched)
                 THEN Append(merged, OrphanRecord(key[1], key[2], system1_record))
                 ELSE merged)

(***************************************************************************)
(* The state machine: one invocation of merge_campaign_data over the       *)
(* records the two sources return.  Its steps are the numbered sections of *)
(* the function: lookup and attribution (3, 4), tracking-failure orphans   *)
(* (5), legitimate orphans (6).                                            *)
(***************************************************************************)
\* Hourly rows of one merge.  There are two portals (SYSTEM1_API_KEY_1 and _2);
\* the second never reports more rows than the first, as get_revenue_data
\* only concatenates the portals' lists.
MaxHourly == MaxRecords - 1

\* nothing summarised, nothing ingested, no request served
NoSummary ==
    [total_spend |-> RZero, total_revenue |-> RZero, total_profit |-> RZero,
     avg_roas |-> RZero]

NoPipeline ==
    /\ summary = NoSummary
    /\ reset_table = FALSE
    /\ table_before = <<>>
    /\ metrics_table = <<>>
    /\ insert_log = <<>>
    /\ inserted_count = 0

NoResponse == [status |-> 0]

\* merge_campaign_data has not started: its locals are empty
NoLocals ==
    /\ system1_data = <<>>
    /\ system1_lookup = <<>>
    /\ adset_groups = <<>>
    /\ merged_data = <<>>
    /\ attributed_data = <<>>
    /\ matched_system1_keys = {}
    /\ orphan_records = <<>>
    /\ orphan_totals = NoOrphans
    /\ orphan_by_date = <<>>
    /\ legitimate_orphan_count = 0

NoRequest == [endpoint |-> "none"]

\* _fetch_from_api has not been called
NoStatus == [report_status |-> "none", content_url |-> FALSE]

NotReturned == [kind |-> "none"]

NoFetch ==
    /\ fetch_pc = "idle"
    /\ attempt = 0
    /\ status_requests = 0
    /\ status_data = NoStatus
    /\ fetch_result = NotReturned

NoApi ==
    /\ bigquery_client = "None"
    /\ query_result = <<>>
    /\ response = NoResponse
    /\ request = NoRequest
    /\ user_tokens = <<>>
    /\ issued_states = {}
    /\ callback_log = {}

Init ==
    /\ \E c \in 0..MaxRecords, h1 \in 0..MaxHourly :
          \E h2 \in 0..h1 :
             /\ c + h1 + h2 <= MaxRecords
             /\ h1 + h2 <= MaxHourly
             /\ meta_data \in [1..c -> CostRecords]
             /\ \E p1 \in [1..h1 -> HourlyRecords], p2 \in [1..h2 -> HourlyRecords] :
                   portals = <<p1, p2>>
    /\ NoLocals
    /\ pc = "attribute"
    /\ run = 1
    /\ first_result = <<>>
    /\ NoPipeline
    /\ NoApi
    /\ NoFetch

\* one merge over records as the clients build them, with one portal
InitRaw ==
    /\ \E c \in 0..MaxHourly, h \in 0..1 :
          /\ meta_data \in [1..c -> RawCostRecords]
          /\ \E p1 \in [1..h -> RawHourlyRecords] : portals = <<p1>>
    /\ NoLocals
    /\ pc = "attribute"
    /\ run = 1
    /\ first_result = <<>>
    /\ NoPipeline
    /\ NoApi
    /\ NoFetch

\* mutant: the legitimate-orphan section runs before the tracking-failure one
StepAfterLegitimateFirst(step) ==
    IF step = "attribute" THEN "legitimate"
    ELSE IF step = "legitimate" THEN "orphans"
    ELSE "done"

\* the sections of merge_campaign_data in the order of the source: steps 3-4
\* (lines 60-149), step 5 (lines 151-233), step 6 (lines 235-276), return
StepAfter(step) ==
    IF step = "attribute" THEN "orphans"
    ELSE IF step = "orphans" THEN "legitimate"
    ELSE "done"

\* lines 45-149: fetch the revenue records, build the lookup, group the ads
\* and attribute each group's revenue
Attribute ==
    /\ pc = "attribute"
    /\ system1_data' = GetRevenueData(portals)
    /\ system1_lookup' = BuildLookup(system1_data')
    /\ adset_groups' = GroupAds(meta_data)
    /\ LET merged == AttributeLoop(adset_groups', system1_lookup', NewMergedData)
       IN  IF AttributionRaises(meta_data, merged)
           THEN /\ merged_data' = <<>>
                /\ matched_system1_keys' = {}
                /\ pc' = "failed"
           ELSE /\ merged_data' = merged
                /\ matched_system1_keys' = DictKeys(adset_groups')
                /\ pc' = StepAfter("attribute")
    /\ attributed_data' = merged_data'
    /\ UNCHANGED <<meta_data, portals, orphan_records, orphan_totals,
                   orphan_by_date, legitimate_orphan_count, run, first_result,
                   summary, ingestVars, apiVars, serverVars,
                   fetchVars>>

\* lines 151-233
RedistributeOrphans ==
    /\ pc = "orphans"
    /\ LET found == CollectOrphans(system1_lookup, matched_system1_keys)
       IN  /\ orphan_records' = found.orphan_records
           /\ orphan_totals' = [k \in DOMAIN found \ {"orphan_records"} |-> found[k]]
           /\ IF RPos(found.orphan_revenue)
              THEN /\ orphan_by_date' = GroupOrphansByDate(found.orphan_records)
                   /\ merged_data' = RedistributeLoop(orphan_by_date', merged_data)
              ELSE /\ orphan_by_date' = <<>>
                   /\ merged_data' = merged_data
    /\ pc' = IF Raises(merged_data') THEN "failed" ELSE StepAfter("orphans")
    /\ UNCHANGED <<meta_data, portals, system1_data, system1_lookup, adset_groups,
                   attributed_data, matched_system1_keys,
                   legitimate_orphan_count, run, first_result,
                   summary, ingestVars, apiVars, serverVars,
                   fetchVars>>

\* lines 235-285
LegitimateOrphans ==
    /\ pc = "legitimate"
    /\ merged_data' =
           LegitimateLoop(system1_lookup, matched_system1_keys, merged_data)
    /\ legitimate_orphan_count' = Len(merged_data') - Len(merged_data)
    /\ pc' = IF Raises(merged_data') THEN "failed" ELSE StepAfter("legitimate")
    /\ UNCHANGED <<meta_data, portals, system1_data, system1_lookup, adset_groups,
                   attributed_data, matched_system1_keys, orphan_records,
                   orphan_totals, orphan_by_date, run, first_result,
                   summary, ingestVars, apiVars, serverVars,
                   fetchVars>>

Next ==
    \/ Attribute
    \/ RedistributeOrphans
    \/ LegitimateOrphans

\* a second invocation on the same inputs; the variables still hold what the
\* first one left behind, and each step initialises its own locals
Rerun ==
    /\ pc = "done"
    /\ run = 1
    /\ run' = 2
    /\ first_result' = merged_data
    /\ pc' = "attribute"
    /\ UNCHANGED <<mergeVars, summary, ingestVars, apiVars, serverVars,
                   fetchVars>>

NextTwice == Next \/ Rerun

(***************************************************************************)
(* print_summary over the list the merge returned (lines 288-316).  The    *)
(* top and bottom five are printed from a sorted copy and leave no state.  *)
(***************************************************************************)
RECURSIVE SumSpend(_)
SumSpend(merged) ==
    IF merged = <<>> THEN RZero
    ELSE RAdd(Head(merged).spend, SumSpend(Tail(merged)))

RECURSIVE SumRevenue(_)
SumRevenue(merged) ==
    IF merged = <<>> THEN RZero
    ELSE RAdd(Head(merged).revenue, SumRevenue(Tail(merged)))

\* mutant: the division without its guard
AvgRoasUnguarded(total_revenue, total_spend) ==
    RDiv(total_revenue, total_spend)

\* avg_roas = (total_revenue / total_spend) if total_spend > 0 else 0.0
AvgRoas(total_revenue, total_spend) ==
    IF RPos(total_spend) THEN RDiv(total_revenue, total_spend) ELSE RZero

Summarise(merged) ==
    LET total_spend == SumSpend(merged)
        total_revenue == SumRevenue(merged)
    IN  [total_spend |-> total_spend,
         total_revenue |-> total_revenue,
         total_profit |-> RSub(total_revenue, total_spend),
         avg_roas |-> AvgRoas(total_revenue, total_spend)]

PrintSummary ==
    /\ pc = "done"
    /\ summary' = Summarise(merged_data)
    /\ pc' = IF Undefined(summary'.avg_roas) THEN "failed" ELSE "summarised"
    /\ UNCHANGED <<mergeVars, run, first_result, ingestVars, apiVars,
                   serverVars,
                   fetchVars>>

NextSummary == Next \/ PrintSummary

SpecSummary == Init /\ [][NextSummary]_vars

SpecTwice == Init /\ [][NextTwice]_vars

Spec == Init /\ [][Next]_vars

(***************************************************************************)
(* ingest_to_bigquery (lines 319-419): an optional CREATE OR REPLACE TABLE *)
(* and then one INSERT statement per batch of batch_size records.  The     *)
(* metrics table is the sequence of its rows.                              *)
(***************************************************************************)
batch_size == 50

\* the columns of the INSERT statement, lines 383-408
TableRow(row) ==
    [campaign_id |-> row.campaign_id, campaign_name |-> row.campaign_name,
     ad_set_id |-> row.ad_set_id, ad_set_name |-> row.ad_set_name,
     ad_id |-> row.ad_id, ad_name |-> row.ad_name,
     market |-> row.market, date |-> row.date, spend |-> row.spend,
     link_clicks |-> row.link_clicks, meta_cpc |-> row.meta_cpc,
     meta_ctr |-> row.meta_ctr, searches |-> row.searches,
     purchases |-> row.purchases, revenue |-> row.revenue,
     widget_clicks |-> row.widget_clicks,
     widget_searches |-> row.widget_searches,
     profit |-> row.profit, roas |-> row.roas]

\* range(0, len(merged_data), batch_size), as batch numbers from 1
Batches(n) == 1..((n + batch_size - 1) \div batch_size)

\* merged_data[i:i+batch_size] of batch b, as its first and last index
BatchFirst(b) == (b - 1) * batch_size + 1
BatchLast(b, n) == IF b * batch_size < n THEN b * batch_size ELSE n

\* the table after the INSERTs of batches 1..b, of which those in ok succeeded
RECURSIVE InsertBatches(_, _, _, _)
InsertBatches(table, merged, b, ok) ==
    IF b = 0 THEN table
    ELSE LET before == InsertBatches(table, merged, b - 1, ok)
             batch == SubSeq(merged, BatchFirst(b), BatchLast(b, Len(merged)))
         IN  IF ok[b]
             THEN before \o [i \in 1..Len(batch) |-> TableRow(batch[i])]
             ELSE before

\* mutant: the rows of a batch are counted before its INSERT is run
InsertedCountAttempted(n, b, ok) == IF b = 0 THEN 0 ELSE BatchLast(b, n)

RECURSIVE InsertedCount(_, _, _)
InsertedCount(n, b, ok) ==
    IF b = 0 THEN 0
    ELSE InsertedCount(n, b - 1, ok)
         + (IF ok[b] THEN BatchLast(b, n) - BatchFirst(b) + 1 ELSE 0)

\* CREATE OR REPLACE TABLE when reset_table
TableAfterReset(table, reset) == IF reset THEN <<>> ELSE table

\* a record of the list handed to the call, and a row an earlier call left
IngestRecord(i) ==
    OrphanRecord(Id42, "2025-01-01",
                 [revenue |-> RInt(i), widget_clicks |-> 0, widget_searches |-> 0])

OldRow(i) ==
    TableRow(OrphanRecord(Id7, "2025-01-02",
                          [revenue |-> RInt(i), widget_clicks |-> 0,
                           widget_searches |-> 0]))

InitIngest ==
    /\ \E n \in 0..MaxRows : merged_data = [i \in 1..n |-> IngestRecord(i)]
    /\ \E k \in 0..MaxOldRows : metrics_table = [i \in 1..k |-> OldRow(i)]
    /\ meta_data = <<>>
    /\ portals = <<<<>>, <<>>>>
    /\ system1_data = <<>>
    /\ system1_lookup = <<>>
    /\ adset_groups = <<>>
    /\ attributed_data = <<>>
    /\ matched_system1_keys = {}
    /\ orphan_records = <<>>
    /\ orphan_totals = NoOrphans
    /\ orphan_by_date = <<>>
    /\ legitimate_orphan_count = 0
    /\ pc = "ingest"
    /\ run = 1
    /\ first_result = <<>>
    /\ summary = NoSummary
    /\ reset_table = FALSE
    /\ table_before = <<>>
    /\ insert_log = <<>>
    /\ inserted_count = 0
    /\ NoApi
    /\ NoFetch

\* one call; the CREATE OR REPLACE statement either succeeds or raises, which
\* ends the call (line 356); each INSERT either succeeds or raises, and a
\* raised INSERT is caught and reported (lines 412-417)
IngestToBigQuery ==
    /\ pc = "ingest"
    /\ \E reset \in BOOLEAN, created \in BOOLEAN,
          ok \in [Batches(Len(merged_data)) -> BOOLEAN] :
          LET n == Len(merged_data)
              last == (n + batch_size - 1) \div batch_size
          IN  /\ reset_table' = reset
              /\ table_before' = metrics_table
              /\ IF reset /\ ~created
                 THEN /\ metrics_table' = metrics_table
                      /\ insert_log' = <<>>
                      /\ inserted_count' = 0
                      /\ pc' = "failed"
                 ELSE /\ metrics_table' =
                            InsertBatches(TableAfterReset(metrics_table, reset),
                                          merged_data, last, ok)
                      /\ insert_log' =
                            [b \in Batches(n) |->
                                [first |-> BatchFirst(b), last |-> BatchLast(b, n),
                                 ok |-> ok[b]]]
                      /\ inserted_count' = InsertedCount(n, last, ok)
                      /\ pc' = "ingested"
    /\ UNCHANGED <<mergeVars, run, first_result, summary, apiVars, serverVars,
                   fetchVars>>

SpecIngest == InitIngest /\ [][IngestToBigQuery]_vars

SpecRaw == InitRaw /\ [][Next]_vars

(***************************************************************************)
(* Vocabulary of the properties: sums over sets of records, the cost       *)
(* groups and revenue aggregates as the specification describes them.      *)
(***************************************************************************)
RECURSIVE SumRatOver(_, _)
SumRatOver(S, f) ==
    IF S = {} THEN RZero
    ELSE LET x == CHOOSE y \in S : TRUE
         IN  RAdd(f[x], SumRatOver(S \ {x}, f))

RECURSIVE SumIntOver(_, _)
SumIntOver(S, f) ==
    IF S = {} THEN 0
    ELSE LET x == CHOOSE y \in S : TRUE
         IN  f[x] + SumIntOver(S \ {x}, f)

Attributed == pc # "attribute"
Redistributed == pc \in {"legitimate", "done"}
Returned == pc = "done"

CostKeys == {<<meta_data[i].ad_set_id, meta_data[i].date>> : i \in DOMAIN meta_data}

Members(k) ==
    {i \in DOMAIN meta_data : <<meta_data[i].ad_set_id, meta_data[i].date>> = k}

TotalWeight(k) ==
    SumIntOver(Members(k), [i \in DOMAIN meta_data |-> meta_data[i].link_clicks])

\* the records the attribution step emitted for cost group k
GroupRecords(k) ==
    {i \in DOMAIN attributed_data :
        <<attributed_data[i].ad_set_id, attributed_data[i].date>> = k}

LookupKeys == {system1_lookup[i].key : i \in DOMAIN system1_lookup}

\* the revenue aggregate stored at key k, zero when the key is absent
Stored(k) ==
    IF k \in LookupKeys
    THEN system1_lookup[CHOOSE i \in DOMAIN system1_lookup :
                            system1_lookup[i].key = k].val
    ELSE ZeroMetrics

RevenueOf(records) == [i \in DOMAIN records |-> records[i].revenue]
WidgetClicksOf(records) == [i \in DOMAIN records |-> records[i].widget_clicks]
WidgetSearchesOf(records) == [i \in DOMAIN records |-> records[i].widget_searches]

\* the cost-derived records of a date, and what redistribution added to them
CostRecordsOn(date) ==
    {i \in DOMAIN attributed_data : attributed_data[i].date = date}

AddedRevenue ==
    [i \in DOMAIN attributed_data |->
        RSub(merged_data[i].revenue, attributed_data[i].revenue)]
AddedWidgetClicks ==
    [i \in DOMAIN attributed_data |->
        merged_data[i].widget_clicks - attributed_data[i].widget_clicks]
AddedWidgetSearches ==
    [i \in DOMAIN attributed_data |->
        merged_data[i].widget_searches - attributed_data[i].widget_searches]

\* the four classes of revenue keys
Unmatched(k) == k \in LookupKeys /\ k \notin CostKeys
NumericId(id) == id # <<>> /\ \A i \in DOMAIN id : id[i] \in Digits
TrackingFailure(k) ==
    /\ Unmatched(k) /\ Stored(k).revenue.n > 0
    /\ (k[1] \in Placeholders \/ ~NumericId(k[1]))
Legitimate(k) ==
    /\ Unmatched(k) /\ Stored(k).revenue.n > 0
    /\ NumericId(k[1]) /\ k[1] \notin Placeholders
Discarded(k) == Unmatched(k) /\ Stored(k).revenue.n <= 0

TrackingFailuresOn(date) == {k \in LookupKeys : TrackingFailure(k) /\ k[2] = date}

OrphanRevenueOn(date) ==
    SumRatOver(TrackingFailuresOn(date), [k \in LookupKeys |-> Stored(k).revenue])
OrphanWidgetClicksOn(date) ==
    SumIntOver(TrackingFailuresOn(date), [k \in LookupKeys |-> Stored(k).widget_clicks])
OrphanWidgetSearchesOn(date) ==
    SumIntOver(TrackingFailuresOn(date), [k \in LookupKeys |-> Stored(k).widget_searches])

(***************************************************************************)
(* C1.  Attribution conserves revenue: in a cost group whose total link    *)
(* clicks is positive, each member receives the stored aggregate's revenue *)
(* times its share of the clicks, and the members' revenues add up to the  *)
(* aggregate's revenue.                                                    *)
(***************************************************************************)
C1_AttributionConservesRevenue ==
    Attributed =>
        \A k \in CostKeys :
            TotalWeight(k) > 0 =>
                /\ Cardinality(GroupRecords(k)) = Cardinality(Members(k))
                /\ \A i \in GroupRecords(k) :
                      attributed_data[i].revenue =
                          RMul(Stored(k).revenue,
                               Rat(attributed_data[i].link_clicks, TotalWeight(k)))
                /\ SumRatOver(GroupRecords(k), RevenueOf(attributed_data))
                       = Stored(k).revenue

\* clicks 2 and 1 under revenue 3 give 2 and 1
C1_Witness ==
    /\ Attributed
    /\ \E k \in CostKeys :
          /\ TotalWeight(k) = 3
          /\ Stored(k).revenue = RInt(3)
          /\ \E i, j \in GroupRecords(k) :
                /\ attributed_data[i].link_clicks = 2
                /\ attributed_data[i].revenue = RInt(2)
                /\ attributed_data[j].link_clicks = 1
                /\ attributed_data[j].revenue = RInt(1)

(***************************************************************************)
(* C2.  Redistribution conserves orphan revenue: on a date that has        *)
(* tracking-failure orphans and at least one merged record, the revenue    *)
(* added to that date's records adds up to the date's orphan revenue.      *)
(***************************************************************************)
C2_RedistributionConservesRevenue ==
    Redistributed =>
        \A d \in Dates :
            (TrackingFailuresOn(d) # {} /\ CostRecordsOn(d) # {}) =>
                SumRatOver(CostRecordsOn(d), AddedRevenue) = OrphanRevenueOn(d)

C2_Witness ==
    /\ Redistributed
    /\ \E d \in Dates :
          /\ TrackingFailuresOn(d) # {}
          /\ Cardinality(CostRecordsOn(d)) = 2
          /\ \A i \in CostRecordsOn(d) : RPos(AddedRevenue[i])

(***************************************************************************)
(* C7.  A cost group whose total link clicks is 0 yields revenue 0 for     *)
(* every member, whatever positive revenue is stored at its key.           *)
(***************************************************************************)
C7_ZeroWeightGroupGetsNothing ==
    Attributed =>
        \A k \in CostKeys :
            TotalWeight(k) = 0 =>
                \A i \in GroupRecords(k) : attributed_data[i].revenue = RZero

C7_Witness ==
    /\ Attributed
    /\ \E k \in CostKeys :
          /\ TotalWeight(k) = 0
          /\ RPos(Stored(k).revenue)
          /\ Cardinality(GroupRecords(k)) = 2

(***************************************************************************)
(* C8.  Engagement counts are split by truncation and never over-assigned: *)
(* a group's members together get at most the aggregate's widget clicks    *)
(* and searches, and a date's records together get at most the date's      *)
(* orphan widget clicks and searches.                                      *)
(***************************************************************************)
C8_EngagementNeverOverAssigned ==
    /\ Attributed =>
          \A k \in CostKeys :
              /\ SumIntOver(GroupRecords(k), WidgetClicksOf(attributed_data))
                     <= Stored(k).widget_clicks
              /\ SumIntOver(GroupRecords(k), WidgetSearchesOf(attributed_data))
                     <= Stored(k).widget_searches
    /\ Redistributed =>
          \A d \in Dates :
              /\ SumIntOver(CostRecordsOn(d), AddedWidgetClicks)
                     <= OrphanWidgetClicksOn(d)
              /\ SumIntOver(CostRecordsOn(d), AddedWidgetSearches)
                     <= OrphanWidgetSearchesOn(d)

\* 3 orphan widget clicks split over two equal shares: 1 + 1, one is lost
C8_Witness ==
    /\ Redistributed
    /\ \E d \in Dates :
          /\ OrphanWidgetClicksOn(d) = 3
          /\ Cardinality(CostRecordsOn(d)) = 2
          /\ SumIntOver(CostRecordsOn(d), AddedWidgetClicks) = 2

(***************************************************************************)
(* C3.  Every key of the revenue lookup table is in exactly one class:     *)
(* matched with a cost group, collected as a tracking-failure orphan,      *)
(* emitted as a legitimate orphan, or discarded with revenue <= 0.         *)
(***************************************************************************)
Synthetic == {i \in DOMAIN merged_data : i > Len(attributed_data)}

SyntheticFor(k) ==
    {i \in Synthetic : <<merged_data[i].ad_set_id, merged_data[i].date>> = k}

CollectedAsOrphan(k) ==
    \E i \in DOMAIN orphan_records :
        /\ orphan_records[i][1] = k[2]
        /\ orphan_records[i][2].ad_group_id = k[1]

ClassesOf(k) ==
    (IF k \in CostKeys THEN {"matched"} ELSE {})
        \cup (IF CollectedAsOrphan(k) THEN {"tracking-failure"} ELSE {})
        \cup (IF SyntheticFor(k) # {} THEN {"legitimate"} ELSE {})
        \cup (IF Discarded(k) THEN {"discarded"} ELSE {})

C3_EveryKeyInExactlyOneClass ==
    Returned =>
        /\ matched_system1_keys = CostKeys
        /\ \A k \in LookupKeys :
              /\ Cardinality(ClassesOf(k)) = 1
              /\ CollectedAsOrphan(k) => TrackingFailure(k)
              /\ SyntheticFor(k) # {} => Legitimate(k)

\* a non-numeric id that is no placeholder and a discarded key in one merge
C3_Witness ==
    /\ Returned
    /\ \E k1, k2 \in LookupKeys :
          /\ ClassesOf(k1) = {"tracking-failure"} /\ k1[1] = IdText
          /\ ClassesOf(k2) = {"discarded"}
    /\ meta_data # <<>>

(***************************************************************************)
(* C4.  The derived fields of every merged record agree with the record's  *)
(* own base fields, at every point of the merge.                           *)
(***************************************************************************)
DerivedFieldsAgree(r) ==
    /\ r.profit = RSub(r.revenue, r.spend)
    /\ r.roas = IF r.spend.n > 0
                THEN RSub(Rat(r.revenue.n * r.spend.d, r.revenue.d * r.spend.n),
                          RInt(1))
                ELSE RZero
    /\ r.widget_ctr = IF r.link_clicks > 0
                      THEN Rat(r.widget_clicks, r.link_clicks) ELSE RZero
    /\ r.rpc = IF r.widget_clicks > 0
               THEN Rat(r.revenue.n, r.revenue.d * r.widget_clicks) ELSE RZero

C4_DerivedFieldsAgree ==
    \A i \in DOMAIN merged_data : DerivedFieldsAgree(merged_data[i])

\* a record changed by redistribution, with spend and clicks, beside a
\* synthetic legitimate-orphan record
C4_Witness ==
    /\ Returned
    /\ Synthetic # {}
    /\ \E i \in DOMAIN attributed_data :
          /\ RPos(AddedRevenue[i])
          /\ AddedWidgetClicks[i] > 0
          /\ RPos(merged_data[i].spend)
          /\ merged_data[i].link_clicks > 0

(***************************************************************************)
(* C5.  A second merge of the same cost and revenue records returns the    *)
(* same list as the first, whatever the first one left behind; while it    *)
(* runs, its list holds one record per cost record and none of the first   *)
(* invocation's.                                                           *)
(***************************************************************************)
C5_SecondMergeReturnsTheSame ==
    /\ (run = 2 /\ Returned) => merged_data = first_result
    /\ (run = 2 /\ pc \in {"orphans", "legitimate"}) =>
           Len(merged_data) = Len(meta_data)

C5_Witness ==
    /\ run = 2
    /\ Returned
    /\ Synthetic # {}
    /\ \E i \in DOMAIN attributed_data : RPos(AddedRevenue[i])

(***************************************************************************)
(* C6.  The lookup table holds, for every key, the sums of revenue, widget *)
(* clicks and widget searches over all the rows the revenue source         *)
(* returned for that key, of every hour and every portal.                  *)
(***************************************************************************)
Rows == {x \in (DOMAIN portals) \X (1..MaxRecords) : x[2] <= Len(portals[x[1]])}

RowKey(x) == <<portals[x[1]][x[2]].ad_group_id, portals[x[1]][x[2]].date>>

RowsOf(k) == {x \in Rows : RowKey(x) = k}

C6_LookupSumsAllRows ==
    Attributed =>
        /\ LookupKeys = {RowKey(x) : x \in Rows}
        /\ \A i, j \in DOMAIN system1_lookup :
              system1_lookup[i].key = system1_lookup[j].key => i = j
        /\ \A k \in LookupKeys :
              /\ Stored(k).revenue =
                     SumRatOver(RowsOf(k),
                                [x \in Rows |-> portals[x[1]][x[2]].revenue])
              /\ Stored(k).widget_clicks =
                     SumIntOver(RowsOf(k),
                                [x \in Rows |-> portals[x[1]][x[2]].widget_clicks])
              /\ Stored(k).widget_searches =
                     SumIntOver(RowsOf(k),
                                [x \in Rows |-> portals[x[1]][x[2]].widget_searches])

(***************************************************************************)
(* C9.  Every unmatched key with an all-digit id that is no placeholder    *)
(* and with revenue > 0 yields exactly one synthetic record, filled from   *)
(* its aggregate; no other key yields one.                                 *)
(***************************************************************************)
IsSyntheticFor(r, k) ==
    /\ r.ad_set_id = k[1]
    /\ r.date = k[2]
    /\ r.campaign_id = "UNKNOWN"
    /\ r.ad_id = "UNKNOWN"
    /\ r.spend = RZero
    /\ r.revenue = Stored(k).revenue
    /\ r.profit = Stored(k).revenue
    /\ r.roas = RZero
    /\ r.link_clicks = 0
    /\ r.widget_clicks = Stored(k).widget_clicks
    /\ r.widget_searches = Stored(k).widget_searches

C9_LegitimateOrphansEmitted ==
    Returned =>
        /\ \A k \in LookupKeys :
              Legitimate(k) =>
                  /\ Cardinality(SyntheticFor(k)) = 1
                  /\ \A i \in SyntheticFor(k) : IsSyntheticFor(merged_data[i], k)
        /\ \A i \in Synthetic :
              LET k == <<merged_data[i].ad_set_id, merged_data[i].date>>
              IN  k \in LookupKeys /\ Legitimate(k)
        /\ Len(merged_data) = Len(meta_data) + Cardinality(Synthetic)

\* a legitimate orphan with engagement beside a tracking-failure orphan
C9_Witness ==
    /\ Returned
    /\ \E k \in LookupKeys :
          /\ Legitimate(k)
          /\ Stored(k).widget_clicks > 0
          /\ Cardinality(SyntheticFor(k)) = 1
    /\ \E k \in LookupKeys : TrackingFailure(k)
    /\ meta_data # <<>>

(***************************************************************************)
(* C10.  An unmatched key whose revenue is <= 0 is discarded, whatever its *)
(* id: no record is emitted for it, and its revenue and engagement counts  *)
(* enter neither the orphan totals nor any record.                         *)
(***************************************************************************)
OrphanByDate(d) ==
    IF \E i \in DOMAIN orphan_by_date : orphan_by_date[i].key = d
    THEN orphan_by_date[CHOOSE i \in DOMAIN orphan_by_date :
                            orphan_by_date[i].key = d].val
    ELSE ZeroMetrics

C10_NonPositiveOrphansDiscarded ==
    Returned =>
        /\ \A k \in LookupKeys :
              Discarded(k) =>
                  /\ ~CollectedAsOrphan(k)
                  /\ \A i \in DOMAIN merged_data :
                        <<merged_data[i].ad_set_id, merged_data[i].date>> # k
        /\ \A d \in Dates :
              /\ OrphanByDate(d).revenue = OrphanRevenueOn(d)
              /\ OrphanByDate(d).widget_clicks = OrphanWidgetClicksOn(d)
              /\ OrphanByDate(d).widget_searches = OrphanWidgetSearchesOn(d)
              /\ TrackingFailuresOn(d) = {} =>
                    \A i \in CostRecordsOn(d) : merged_data[i] = attributed_data[i]
              /\ CostRecordsOn(d) # {} =>
                    SumRatOver(CostRecordsOn(d), AddedRevenue) = OrphanRevenueOn(d)

\* a discarded placeholder key with engagement on a date that has a record
\* and a tracking-failure orphan, and a discarded numeric key
C10_Witness ==
    /\ Returned
    /\ \E k \in LookupKeys :
          /\ Discarded(k)
          /\ Stored(k).widget_clicks > 0
          /\ k[1] = IdNull
          /\ CostRecordsOn(k[2]) # {}
          /\ TrackingFailuresOn(k[2]) # {}

(***************************************************************************)
(* The dashboard API (main.py): the BigQuery client created by the startup *)
(* event and GET /api/analytics/current-metrics.                           *)
(***************************************************************************)
\* the totals of the mocked row in test_analytics.py
MockTotalSpend == 1000
MockTotalLinkClicks == 5000
MockTotalWidgetClicks == 1000
MockTotalRevenue == 200

\* A column of the row the totals query returns is <<>> for NULL (SUM over no
\* rows) and <<v>> for the value v.
TotalSpends == {<<>>, <<RZero>>, <<RInt(MockTotalSpend)>>, <<Rat(343, 2)>>}
TotalLinkClicks == {<<>>, <<0>>, <<MockTotalLinkClicks>>, <<MaxTotalLinkClicks>>}
TotalWidgetClicks ==
    {<<>>, <<0>>, <<MockTotalWidgetClicks>>, <<MaxTotalWidgetClicks>>}
TotalRevenues ==
    {<<>>, <<RZero>>, <<RInt(MockTotalRevenue)>>, <<RInt(1)>>, <<RInt(-1)>>}

\* what bigquery_client.query(query).result() gives: an exception, or the one
\* row of an aggregate query without GROUP BY
QueryOutcomes ==
    {[kind |-> "raised"]} \cup
    [kind : {"row"}, total_spend : TotalSpends,
     total_link_clicks : TotalLinkClicks,
     total_widget_clicks : TotalWidgetClicks, total_revenue : TotalRevenues]

\* row.total_spend or 0
OrZero(column) == IF column = <<>> THEN RZero ELSE column[1]
OrZeroInt(column) == IF column = <<>> THEN 0 ELSE column[1]

RECURSIVE Pow10(_)
Pow10(k) == IF k = 0 THEN 1 ELSE 10 * Pow10(k - 1)

\* round(x, ndigits): to the nearest multiple of 10^-ndigits, ties to even
Round(x, ndigits) ==
    LET scaled == RMul(x, RInt(Pow10(ndigits)))
        floor == scaled.n \div scaled.d
        twice == 2 * (scaled.n - floor * scaled.d)
        nearest == IF twice < scaled.d THEN floor
                   ELSE IF twice > scaled.d THEN floor + 1
                   ELSE IF floor % 2 = 0 THEN floor ELSE floor + 1
    IN  Rat(nearest, Pow10(ndigits))

DefaultMetrics ==
    [status |-> 200, cpc |-> Rat(15, 100), rpc |-> Rat(8, 100),
     widget_ctr |-> RInt(25), spend |-> RInt(500)]

\* mutant: the failure is passed on to the client
MetricsOnErrorStatus500 ==
    [status |-> 500, cpc |-> RZero, rpc |-> RZero, widget_ctr |-> RZero,
     spend |-> RZero]

\* lines 473-481: return defaults on error
MetricsOnError == DefaultMetrics

\* mutant: the click-through rate as a fraction, not a percentage
WidgetCtrFraction(total_widget_clicks, total_link_clicks) ==
    IF total_link_clicks > 0
    THEN Rat(total_widget_clicks, total_link_clicks)
    ELSE RInt(25)

\* (total_widget_clicks / total_link_clicks * 100) if total_link_clicks > 0 else 25.0
WidgetCtrPercent(total_widget_clicks, total_link_clicks) ==
    IF total_link_clicks > 0
    THEN RMul(Rat(total_widget_clicks, total_link_clicks), RInt(100))
    ELSE RInt(25)

\* lines 455-471
MetricsOfRow(row) ==
    LET total_spend == OrZero(row.total_spend)
        total_link_clicks == OrZeroInt(row.total_link_clicks)
        total_widget_clicks == OrZeroInt(row.total_widget_clicks)
        total_revenue == OrZero(row.total_revenue)
        cpc == IF total_link_clicks > 0
               THEN RDiv(total_spend, RInt(total_link_clicks))
               ELSE Rat(15, 100)
        rpc == IF total_widget_clicks > 0
               THEN RDiv(total_revenue, RInt(total_widget_clicks))
               ELSE Rat(8, 100)
        widget_ctr == WidgetCtrPercent(total_widget_clicks, total_link_clicks)
        avg_daily_spend == IF RPos(total_spend)
                           THEN RDiv(total_spend, RInt(7))
                           ELSE RInt(500)
    IN  [status |-> 200,
         cpc |-> Round(cpc, 2),
         rpc |-> Round(rpc, 2),
         widget_ctr |-> Round(widget_ctr, 1),
         spend |-> Round(avg_daily_spend, 0)]

InitApi ==
    /\ meta_data = <<>>
    /\ portals = <<<<>>, <<>>>>
    /\ NoLocals
    /\ pc = "startup"
    /\ run = 1
    /\ first_result = <<>>
    /\ NoPipeline
    /\ NoApi
    /\ NoFetch

\* lines 632-643: bigquery.Client(project=...) succeeds or raises
StartupEvent ==
    /\ pc = "startup"
    /\ \E initialised \in BOOLEAN :
          bigquery_client' = IF initialised THEN "Client" ELSE "None"
    /\ pc' = "serving"
    /\ UNCHANGED <<mergeVars, run, first_result, summary, ingestVars,
                   query_result, response, serverVars,
                   fetchVars>>

\* lines 424-481
GetCurrentMetrics ==
    /\ pc = "serving"
    /\ IF bigquery_client = "None"
       THEN /\ query_result' = <<>>
            /\ response' = DefaultMetrics
       ELSE \E outcome \in QueryOutcomes :
               /\ query_result' = <<outcome>>
               /\ response' = IF outcome.kind = "raised" THEN MetricsOnError
                               ELSE MetricsOfRow(outcome)
    /\ request' = [endpoint |-> "current-metrics"]
    /\ UNCHANGED <<mergeVars, pc, run, first_result, summary, ingestVars,
                   bigquery_client, user_tokens, issued_states, callback_log,
                   fetchVars>>

NextApi == StartupEvent \/ GetCurrentMetrics

SpecApi == InitApi /\ [][NextApi]_vars

(***************************************************************************)
(* C11.  In the redistribution for a date, each merged record of the date  *)
(* receives orphan_revenue * link_clicks / total_clicks when the date's    *)
(* total link clicks is > 0 and orphan_revenue / count when it is 0; a     *)
(* single zero-click record receives the whole orphan revenue.             *)
(***************************************************************************)
LinkClicksOn(date) ==
    SumIntOver(CostRecordsOn(date),
               [i \in DOMAIN attributed_data |-> attributed_data[i].link_clicks])

C11_RedistributionShares ==
    Redistributed =>
        \A d \in Dates :
            (TrackingFailuresOn(d) # {} /\ CostRecordsOn(d) # {}) =>
                \A i \in CostRecordsOn(d) :
                    AddedRevenue[i] =
                        IF LinkClicksOn(d) > 0
                        THEN RMul(OrphanRevenueOn(d),
                                  Rat(attributed_data[i].link_clicks, LinkClicksOn(d)))
                        ELSE RMul(OrphanRevenueOn(d),
                                  Rat(1, Cardinality(CostRecordsOn(d))))

\* one record without clicks is alone on the date of an orphan and gets it all
C11_Witness ==
    /\ Redistributed
    /\ \E d \in Dates :
          /\ TrackingFailuresOn(d) # {}
          /\ Cardinality(CostRecordsOn(d)) = 1
          /\ \A i \in CostRecordsOn(d) :
                /\ attributed_data[i].link_clicks = 0
                /\ RPos(AddedRevenue[i])
                /\ AddedRevenue[i] = OrphanRevenueOn(d)

(***************************************************************************)
(* C12.  Tracking-failure orphan revenue on a date for which no merged     *)
(* record was emitted is dropped: the merge does not fail, no record is    *)
(* created or changed for it, and the other dates are still redistributed. *)
(***************************************************************************)
DroppedDates == {d \in Dates : TrackingFailuresOn(d) # {} /\ CostRecordsOn(d) = {}}

C12_OrphansOfEmptyDateDropped ==
    /\ pc # "failed"
    /\ (Redistributed /\ DroppedDates # {}) =>
          /\ pc = "legitimate" => Len(merged_data) = Len(attributed_data)
          /\ \A i \in DOMAIN merged_data :
                merged_data[i].date \in DroppedDates =>
                    LET k == <<merged_data[i].ad_set_id, merged_data[i].date>>
                    IN  /\ i \in Synthetic
                        /\ Legitimate(k)
                        /\ merged_data[i].revenue = Stored(k).revenue
          /\ \A d \in Dates \ DroppedDates :
                /\ SumRatOver(CostRecordsOn(d), AddedRevenue) = OrphanRevenueOn(d)
                /\ TrackingFailuresOn(d) = {} =>
                      \A i \in CostRecordsOn(d) : merged_data[i] = attributed_data[i]

\* an orphan on a date without records, and an orphan on the other date that
\* is added to the record of that date
C12_Witness ==
    /\ Returned
    /\ \E d1, d2 \in Dates :
          /\ d1 \in DroppedDates
          /\ TrackingFailuresOn(d2) # {}
          /\ CostRecordsOn(d2) # {}
          /\ \A i \in CostRecordsOn(d2) : RPos(AddedRevenue[i])

(***************************************************************************)
(* C13.  The summary over a merged list reports total_profit =             *)
(* total_revenue - total_spend and a weighted average ROAS of              *)
(* total_revenue / total_spend - 1, or 0 when total spend is 0; an empty   *)
(* list gives zeros.                                                       *)
(***************************************************************************)
Summarised == pc = "summarised"

TotalOf(f) == SumRatOver(DOMAIN merged_data, f)

C13_SummaryFigures ==
    Summarised =>
        /\ summary.total_spend =
               TotalOf([i \in DOMAIN merged_data |-> merged_data[i].spend])
        /\ summary.total_revenue = TotalOf(RevenueOf(merged_data))
        /\ summary.total_profit = RSub(summary.total_revenue, summary.total_spend)
        /\ summary.avg_roas =
               IF summary.total_spend.n > 0
               THEN RSub(Rat(summary.total_revenue.n * summary.total_spend.d,
                             summary.total_revenue.d * summary.total_spend.n),
                         RInt(1))
               ELSE RZero
        /\ merged_data = <<>> => summary = NoSummary

(***************************************************************************)
(* C14.  If a cost record or a revenue record handed to the merge lacks    *)
(* its join key (entity id or date), the whole merge is rejected: it fails *)
(* and returns no merged records.                                          *)
(***************************************************************************)
LacksJoinKey ==
    \/ \E i \in DOMAIN meta_data :
          meta_data[i].ad_set_id = None \/ meta_data[i].date = NoDate
    \/ \E p \in DOMAIN portals : \E i \in DOMAIN portals[p] :
          portals[p][i].ad_group_id = <<>> \/ portals[p][i].date = NoDate

C14_MalformedInputRejected ==
    (Attributed /\ LacksJoinKey) => (pc = "failed" /\ merged_data = <<>>)

(***************************************************************************)
(* C15.  Every intentional drop of revenue is accounted for: at the end of *)
(* a merge the number of dropped orphan keys and the dropped amount are    *)
(* exposed, and the orphan amount reported as distributed equals the       *)
(* amount actually added to merged records.  The merge exposes its list    *)
(* and three printed figures (lines 278-283); the one that speaks of       *)
(* orphan revenue is "Distributed $orphan_revenue", so the dropped amount  *)
(* is accounted for only if that figure is what was added.                 *)
(***************************************************************************)
\* lines 279-280: printed when orphan_revenue > 0
ReportedDistributed ==
    IF RPos(orphan_totals.orphan_revenue) THEN orphan_totals.orphan_revenue
    ELSE RZero

ActuallyDistributed == SumRatOver(DOMAIN attributed_data, AddedRevenue)

C15_DropsAccountedFor ==
    Returned => ReportedDistributed = ActuallyDistributed

(***************************************************************************)
(* C16.  No ratio of the merge or of the summary divides by zero:          *)
(* attribution share, redistribution share, ROAS, widget CTR, RPC and the  *)
(* summary's average ROAS yield 0 when their denominator (total clicks,    *)
(* record count, spend, link clicks, widget clicks, total spend) is 0, for *)
(* every input with non-negative spend and clicks.                         *)
(***************************************************************************)
RatioFieldsDefined(r) ==
    /\ r.revenue.d > 0 /\ r.profit.d > 0 /\ r.roas.d > 0
    /\ r.widget_ctr.d > 0 /\ r.rpc.d > 0

C16_NoDivisionByZero ==
    /\ pc # "failed"
    /\ \A i \in DOMAIN merged_data :
          /\ RatioFieldsDefined(merged_data[i])
          /\ merged_data[i].spend = RZero => merged_data[i].roas = RZero
          /\ merged_data[i].link_clicks = 0 => merged_data[i].widget_ctr = RZero
          /\ merged_data[i].widget_clicks = 0 => merged_data[i].rpc = RZero
    /\ Attributed =>
          \A k \in CostKeys :
              TotalWeight(k) = 0 =>
                  \A i \in GroupRecords(k) :
                      /\ attributed_data[i].revenue = RZero
                      /\ attributed_data[i].widget_clicks = 0
                      /\ attributed_data[i].widget_searches = 0
    /\ Redistributed =>
          ActuallyDistributed =
              SumRatOver(Dates \ DroppedDates, [d \in Dates |-> OrphanRevenueOn(d)])
    /\ Summarised =>
          /\ summary.avg_roas.d > 0
          /\ summary.total_spend = RZero => summary.avg_roas = RZero

\* a record without spend or clicks, in a group whose stored revenue is
\* positive, that receives an orphan's revenue but no widget clicks; the
\* summary has revenue and no spend
C16_Witness ==
    /\ Summarised
    /\ summary.total_spend = RZero
    /\ RPos(summary.total_revenue)
    /\ \E k \in CostKeys :
          /\ TotalWeight(k) = 0
          /\ RPos(Stored(k).revenue)
          /\ \E i \in GroupRecords(k) :
                /\ RPos(merged_data[i].revenue)
                /\ merged_data[i].widget_clicks = 0

(***************************************************************************)
(* C17.  The market tag of a merged record is the tag of the first rule,   *)
(* in the caller-supplied ordered list of (substring, tag) rules, whose    *)
(* substring occurs in the record's ad_set_name, and 'OTHER' when no rule  *)
(* matches; a name matching several rules gets the tag of the earliest.    *)
(***************************************************************************)
RegionRules ==
    { [substring |-> <<"B", "R", "A", "_">>, tag |-> "BR"],
      [substring |-> <<"M", "E", "X", "_">>, tag |-> "MX"],
      [substring |-> <<"U", "S", "A", "_">>, tag |-> "US"] }

\* the ordered rule lists a caller may supply, of up to two rules
RuleLists ==
    {<<>>} \cup {<<r>> : r \in RegionRules}
           \cup {<<r1, r2>> : r1 \in RegionRules, r2 \in RegionRules}

RECURSIVE FirstMatch(_, _)
FirstMatch(rules, name) ==
    IF rules = <<>> THEN "OTHER"
    ELSE IF Contains(name, Head(rules).substring) THEN Head(rules).tag
    ELSE FirstMatch(Tail(rules), name)

C17_MarketFollowsCallerRules ==
    (Attributed /\ pc # "failed") =>
        \A rules \in RuleLists : \A i \in DOMAIN attributed_data :
            attributed_data[i].market =
                FirstMatch(rules, attributed_data[i].ad_set_name)

(***************************************************************************)
(* C18.  Persisting merged records is append-only and batched: after any   *)
(* call of ingest_to_bigquery every row that was in the metrics table      *)
(* before the call is still in it, and the call only adds rows, in         *)
(* batches.                                                                *)
(***************************************************************************)
Ingested == pc = "ingested"

IsPrefix(a, b) == Len(a) <= Len(b) /\ SubSeq(b, 1, Len(a)) = a

C18_IngestAppendOnly ==
    Ingested =>
        /\ IsPrefix(table_before, metrics_table)
        /\ Len(metrics_table) = Len(table_before) + inserted_count
        /\ \A b \in DOMAIN insert_log :
              insert_log[b].last - insert_log[b].first + 1 \in 1..batch_size

(***************************************************************************)
(* C19.  GET /api/analytics/current-metrics answers 200 with the defaults  *)
(* cpc 0.15, rpc 0.08, widget_ctr 25.0, spend 500.0 whenever BigQuery is   *)
(* not available: the client is not initialised, or the query raises.      *)
(***************************************************************************)
Answered == response # NoResponse

QueryRaised == query_result # <<>> /\ query_result[1].kind = "raised"

IsDefaults(r) ==
    /\ r.status = 200
    /\ r.cpc = Rat(15, 100)
    /\ r.rpc = Rat(8, 100)
    /\ r.widget_ctr = Rat(25, 1)
    /\ r.spend = Rat(500, 1)

C19_DefaultsWithoutBigQuery ==
    (Answered /\ (bigquery_client = "None" \/ QueryRaised)) => IsDefaults(response)

\* the client exists and its query raised
C19_Witness ==
    /\ Answered
    /\ bigquery_client = "Client"
    /\ QueryRaised
    /\ IsDefaults(response)

(***************************************************************************)
(* C20.  With BigQuery available the endpoint returns cpc =                *)
(* total_spend/total_link_clicks, rpc = total_revenue/total_widget_clicks, *)
(* widget_ctr = 100*total_widget_clicks/total_link_clicks and spend =      *)
(* total_spend/7, rounded to 2, 2, 1 and 0 decimals, each replaced by its  *)
(* default when its denominator or total is 0; totals 1000, 5000, 1000,    *)
(* 200 give 0.20, 0.20, 20.0, 143.                                         *)
(***************************************************************************)
QueryGaveRow == query_result # <<>> /\ query_result[1].kind = "row"

\* a NULL total counts as 0
TotalOrZero(column) == IF column = <<>> THEN 0 ELSE column[1]
TotalOrZeroRat(column) == IF column = <<>> THEN Rat(0, 1) ELSE column[1]

\* r is x rounded to k decimals: a multiple of 10^-k at most half a unit away
IsRounded(r, x, k) ==
    LET unit == Pow10(k)
        diff == RSub(r, x)
    IN  /\ (r.n * unit) % r.d = 0
        /\ 2 * unit * Abs(diff.n) <= diff.d

C20_MetricsFromTotals ==
    (Answered /\ QueryGaveRow) =>
        LET row == query_result[1]
            spend == TotalOrZeroRat(row.total_spend)
            clicks == TotalOrZero(row.total_link_clicks)
            wclicks == TotalOrZero(row.total_widget_clicks)
            revenue == TotalOrZeroRat(row.total_revenue)
        IN  /\ response.status = 200
            /\ IsRounded(response.cpc,
                         IF clicks = 0 THEN Rat(15, 100)
                         ELSE Rat(spend.n, spend.d * clicks), 2)
            /\ IsRounded(response.rpc,
                         IF wclicks = 0 THEN Rat(8, 100)
                         ELSE Rat(revenue.n, revenue.d * wclicks), 2)
            /\ IsRounded(response.widget_ctr,
                         IF clicks = 0 THEN Rat(25, 1)
                         ELSE Rat(100 * wclicks, clicks), 1)
            /\ IsRounded(response.spend,
                         IF spend.n = 0 THEN Rat(500, 1)
                         ELSE Rat(spend.n, spend.d * 7), 0)

\* the totals of the test: 1000, 5000, 1000, 200 give 0.20, 0.20, 20.0, 143
C20_Witness ==
    /\ Answered
    /\ QueryGaveRow
    /\ query_result[1].total_spend = <<Rat(1000, 1)>>
    /\ query_result[1].total_link_clicks = <<5000>>
    /\ query_result[1].total_widget_clicks = <<1000>>
    /\ query_result[1].total_revenue = <<Rat(200, 1)>>
    /\ response.cpc = Rat(20, 100)
    /\ response.rpc = Rat(20, 100)
    /\ response.widget_ctr = Rat(20, 1)
    /\ response.spend = Rat(143, 1)

(***************************************************************************)
(* C21.  The cost grouper partitions the cost records: the groups are      *)
(* keyed by the distinct (ad_set_id, date) pairs of the cost records, the  *)
(* members of a group are the cost records of its key in input order, so   *)
(* every cost record is in exactly one group, a group's total_clicks is    *)
(* the sum of its members' link clicks, and attribution emits one merged   *)
(* record per cost record, group by group, with that record's key, spend   *)
(* and link clicks.                                                        *)
(***************************************************************************)
AttributionDone == pc \in {"orphans", "legitimate", "done"}

\* the cost records of key k, in input order
MembersInOrder(k) ==
    LET InGroup(r) == <<r.ad_set_id, r.date>> = k
    IN  SelectSeq(meta_data, InGroup)

\* the members of all groups, group after group
RECURSIVE GroupedAds(_)
GroupedAds(groups) ==
    IF groups = <<>> THEN <<>>
    ELSE Head(groups).val.ads \o GroupedAds(Tail(groups))

C21_GrouperPartitions ==
    AttributionDone =>
        /\ DictKeys(adset_groups) = CostKeys
        /\ \A i, j \in DOMAIN adset_groups :
              adset_groups[i].key = adset_groups[j].key => i = j
        /\ \A g \in DOMAIN adset_groups :
              /\ adset_groups[g].val.ads = MembersInOrder(adset_groups[g].key)
              /\ adset_groups[g].val.ads # <<>>
              /\ adset_groups[g].val.total_clicks = TotalWeight(adset_groups[g].key)
        /\ \A i \in DOMAIN meta_data :
              Cardinality({g \in DOMAIN adset_groups :
                              \E m \in DOMAIN adset_groups[g].val.ads :
                                  adset_groups[g].val.ads[m] = meta_data[i]}) = 1
        /\ Len(attributed_data) = Len(meta_data)
        /\ LET ads == GroupedAds(adset_groups)
           IN  /\ Len(ads) = Len(meta_data)
               /\ \A i \in DOMAIN attributed_data :
                     /\ attributed_data[i].ad_set_id = ads[i].ad_set_id
                     /\ attributed_data[i].date = ads[i].date
                     /\ attributed_data[i].spend = ads[i].spend
                     /\ attributed_data[i].link_clicks = ads[i].link_clicks

\* three cost records keyed A, B, A: the two of A differ in clicks and spend,
\* and the second of A is emitted before the record of B
C21_Witness ==
    /\ AttributionDone
    /\ Len(meta_data) = 3
    /\ Len(adset_groups) = 2
    /\ meta_data[1].ad_set_id = meta_data[3].ad_set_id
    /\ meta_data[1].date = meta_data[3].date
    /\ meta_data[2].ad_set_id # meta_data[1].ad_set_id
    /\ meta_data[1].link_clicks = 1 /\ meta_data[3].link_clicks = MaxClicks
    /\ meta_data[1].spend # meta_data[3].spend
    /\ attributed_data[2].link_clicks = MaxClicks
    /\ attributed_data[2].spend = meta_data[3].spend
    /\ adset_groups[1].val.total_clicks = 1 + MaxClicks

(***************************************************************************)
(* C22.  Redistribution is applied once per date: orphan_by_date has one   *)
(* entry per date that has tracking-failure orphans, holding the sums over *)
(* all orphans of that date, and every cost-derived record is incremented  *)
(* by one share of those sums, or not at all when its date has no orphan.  *)
(***************************************************************************)
OrphanDates == {d \in Dates : TrackingFailuresOn(d) # {}}

\* the share of record i in what its date receives
ShareOf(i) ==
    LET d == attributed_data[i].date
    IN  IF LinkClicksOn(d) > 0
        THEN Rat(attributed_data[i].link_clicks, LinkClicksOn(d))
        ELSE Rat(1, Cardinality(CostRecordsOn(d)))

C22_RedistributionOncePerDate ==
    Redistributed =>
        /\ DictKeys(orphan_by_date) = OrphanDates
        /\ Len(orphan_by_date) = Cardinality(OrphanDates)
        /\ \A e \in DOMAIN orphan_by_date :
              LET d == orphan_by_date[e].key
              IN  /\ orphan_by_date[e].val.revenue = OrphanRevenueOn(d)
                  /\ orphan_by_date[e].val.widget_clicks = OrphanWidgetClicksOn(d)
                  /\ orphan_by_date[e].val.widget_searches
                         = OrphanWidgetSearchesOn(d)
        /\ \A i \in DOMAIN attributed_data :
              LET d == attributed_data[i].date
              IN  IF d \in OrphanDates
                  THEN /\ AddedRevenue[i] = RMul(OrphanRevenueOn(d), ShareOf(i))
                       /\ AddedWidgetClicks[i] =
                              PyInt(RMul(RInt(OrphanWidgetClicksOn(d)), ShareOf(i)))
                       /\ AddedWidgetSearches[i] =
                              PyInt(RMul(RInt(OrphanWidgetSearchesOn(d)), ShareOf(i)))
                  ELSE /\ AddedRevenue[i] = RZero
                       /\ AddedWidgetClicks[i] = 0
                       /\ AddedWidgetSearches[i] = 0

\* two orphan keys on one date: the record of that date gets both revenues
\* in one increment
C22_Witness ==
    /\ Redistributed
    /\ \E d \in Dates :
          /\ Cardinality(TrackingFailuresOn(d)) = 2
          /\ Len(orphan_by_date) = 1
          /\ \E i \in CostRecordsOn(d) :
                /\ AddedRevenue[i] = RInt(2 * MaxRevenue)
                /\ AddedWidgetClicks[i] = 2 * MaxWidgetClicks

(***************************************************************************)
(* C23.  Frame of the redistribution: it adds and removes no record; of a  *)
(* cost-derived record it leaves the identifiers and names, the date, the  *)
(* market, spend, link_clicks, searches, purchases, meta_cpc and meta_ctr  *)
(* as attribution set them; and a record whose date has no                 *)
(* tracking-failure orphan is left exactly as it was.                      *)
(***************************************************************************)
FrameFields ==
    {"campaign_id", "campaign_name", "ad_set_id", "ad_set_name", "ad_id",
     "ad_name", "market", "date", "spend", "link_clicks", "searches",
     "purchases", "meta_cpc", "meta_ctr"}

RedistributedFields ==
    {"revenue", "widget_clicks", "widget_searches", "profit", "roas",
     "widget_ctr", "rpc"}

C23_RedistributionFrame ==
    Redistributed =>
        /\ pc = "legitimate" => Len(merged_data) = Len(attributed_data)
        /\ Len(merged_data) >= Len(attributed_data)
        /\ \A i \in DOMAIN attributed_data :
              /\ DOMAIN merged_data[i] = FrameFields \cup RedistributedFields
              /\ \A f \in FrameFields : merged_data[i][f] = attributed_data[i][f]
              /\ attributed_data[i].date \notin OrphanDates =>
                     merged_data[i] = attributed_data[i]

\* one date has an orphan and a record that changed, the other date has a
\* record that did not
C23_Witness ==
    /\ pc = "legitimate"
    /\ \E i, j \in DOMAIN attributed_data :
          /\ attributed_data[i].date \in OrphanDates
          /\ merged_data[i].revenue # attributed_data[i].revenue
          /\ merged_data[i].rpc # attributed_data[i].rpc
          /\ attributed_data[j].date \notin OrphanDates
          /\ merged_data[j] = attributed_data[j]
          /\ merged_data[j].searches = 4

(***************************************************************************)
(* C24.  Only tracking-failure orphans are redistributed, and the          *)
(* legitimate-orphan pass works on the original unmatched keys: what the   *)
(* cost-derived records of a date gain is the tracking-failure revenue of  *)
(* that date and nothing of a legitimate orphan; the matched-key set stays *)
(* the set of cost group keys and the lookup stays as built; the synthetic *)
(* records are, one each and in lookup order, the keys of the lookup that  *)
(* are in no cost group, have revenue > 0 and a numeric id.                *)
(***************************************************************************)
LegitimateOn(date) == {k \in LookupKeys : Legitimate(k) /\ k[2] = date}

\* the qualifying keys of the original unmatched set, in lookup order
RECURSIVE QualifyingKeys(_)
QualifyingKeys(lookup) ==
    IF lookup = <<>> THEN <<>>
    ELSE (IF Legitimate(Head(lookup).key) THEN <<Head(lookup).key>> ELSE <<>>)
         \o QualifyingKeys(Tail(lookup))

C24_OnlyTrackingFailuresRedistributed ==
    /\ AttributionDone =>
          /\ matched_system1_keys = CostKeys
          /\ system1_lookup = BuildLookup(GetRevenueData(portals))
    /\ Redistributed =>
          \A d \in Dates :
              /\ CostRecordsOn(d) # {} =>
                     SumRatOver(CostRecordsOn(d), AddedRevenue) = OrphanRevenueOn(d)
              /\ TrackingFailuresOn(d) = {} =>
                     \A i \in CostRecordsOn(d) : AddedRevenue[i] = RZero
    /\ Returned =>
          LET keys == QualifyingKeys(system1_lookup)
          IN  /\ Len(merged_data) = Len(attributed_data) + Len(keys)
              /\ \A n \in DOMAIN keys :
                    LET r == merged_data[Len(attributed_data) + n]
                    IN  /\ <<r.ad_set_id, r.date>> = keys[n]
                        /\ r.revenue = Stored(keys[n]).revenue
                        /\ r.campaign_id = "UNKNOWN"

\* a legitimate orphan and a tracking-failure orphan on the date of a cost
\* record: the record gains the tracking-failure revenue only
C24_Witness ==
    /\ Returned
    /\ \E d \in Dates :
          /\ LegitimateOn(d) # {}
          /\ TrackingFailuresOn(d) # {}
          /\ \E i \in CostRecordsOn(d) :
                AddedRevenue[i] = OrphanRevenueOn(d) /\ RPos(AddedRevenue[i])
          /\ \E i \in Synthetic : merged_data[i].date = d

(***************************************************************************)
(* GET /api/campaigns (main.py, lines 291-393): performance rows grouped   *)
(* by campaign, ad set or ad.                                              *)
(***************************************************************************)
ValidLevels == {"campaign", "adset", "ad"}

\* level is a free query parameter; "adset" is its default
Levels == ValidLevels \cup {"account", ""}

\* date_from and date_to are optional
OptionalDates == {<<>>, <<"2025-01-01">>}

\* a row of the grouped query: the id is never NULL (line 355), the name and
\* the sums may be
CampaignRows ==
    [id : {<<"1">>}, name : {<<>>, <<"n">>}, spend : {<<>>, <<RInt(MaxSpend)>>}]

CampaignQueryOutcomes ==
    {[kind |-> "raised"]} \cup
    {[kind |-> "rows", rows |-> rows] :
        rows \in UNION {[1..n -> CampaignRows] : n \in 0..2}}

\* lines 366-382: row.name or "Unknown", row.spend or 0.0
CampaignPerformanceRow(row) ==
    [id |-> row.id[1],
     name |-> IF row.name = <<>> THEN "Unknown" ELSE row.name[1],
     spend |-> OrZero(row.spend)]

CampaignPerformanceResponse(level, data) ==
    [status |-> 200, level |-> level, data |-> data, total_rows |-> Len(data)]

\* raise HTTPException(status_code=...)
HTTPException(status_code) == [status |-> status_code]

\* lines 304-306: empty data when BigQuery is not available
CampaignsWithoutClient(level) == CampaignPerformanceResponse(level, <<>>)

GetCampaigns ==
    /\ pc = "serving"
    /\ \E level \in Levels, date_from \in OptionalDates, date_to \in OptionalDates :
          /\ request' = [endpoint |-> "campaigns", level |-> level,
                         date_from |-> date_from, date_to |-> date_to]
          /\ IF bigquery_client = "None"
             THEN /\ query_result' = <<>>
                  /\ response' = CampaignsWithoutClient(level)
             ELSE IF level \notin ValidLevels
             THEN /\ query_result' = <<>>
                  /\ response' = HTTPException(400)
             ELSE \E outcome \in CampaignQueryOutcomes :
                     /\ query_result' = <<outcome>>
                     /\ response' =
                            IF outcome.kind = "raised" THEN HTTPException(500)
                            ELSE CampaignPerformanceResponse(
                                     level,
                                     [i \in DOMAIN outcome.rows |->
                                         CampaignPerformanceRow(outcome.rows[i])])
    /\ UNCHANGED <<mergeVars, pc, run, first_result, summary, ingestVars,
                   bigquery_client, user_tokens, issued_states, callback_log,
                   fetchVars>>

NextCampaigns == StartupEvent \/ GetCampaigns

SpecCampaigns == InitApi /\ [][NextCampaigns]_vars

(***************************************************************************)
(* C25.  GET /api/campaigns answers every request whose level is not       *)
(* 'campaign', 'adset' or 'ad' with HTTP 400, with or without a BigQuery   *)
(* client, and never with a 200 response.                                  *)
(***************************************************************************)
CampaignsRequest == request.endpoint = "campaigns"

C25_InvalidLevelRejected ==
    (CampaignsRequest /\ request.level \notin ValidLevels) =>
        response.status = 400

(***************************************************************************)
(* The Google OAuth endpoints and the export (main.py, lines 498-626).     *)
(* secrets.token_urlsafe gives a token no earlier call has given.          *)
(***************************************************************************)
StateTokens == {"st1", "st2"}
SessionIds == {"sid1", "sid2"}

\* the state parameter of a callback is whatever the caller sends
CallbackStates == StateTokens \cup {"forged"}

\* an authorization code Google accepts, and one it rejects
Codes == {"code-ok", "code-bad"}

\* sheets_service.exchange_code_for_token(code): flow.fetch_token raises for a
\* code Google rejects
ExchangeRaises(code) == code = "code-bad"

TokenData(code) == [token |-> code]

RedirectResponse(url) == [status |-> 307, url |-> url]

\* lines 505-514
GoogleAuth ==
    /\ pc = "serving"
    /\ \E state \in StateTokens \ issued_states :
          /\ issued_states' = issued_states \cup {state}
          /\ request' = [endpoint |-> "auth"]
          /\ response' = [status |-> 200, state |-> state]
    /\ UNCHANGED <<mergeVars, pc, run, first_result, summary, ingestVars,
                   bigquery_client, query_result, user_tokens, callback_log,
                   fetchVars>>

\* lines 516-536
GoogleCallback ==
    /\ pc = "serving"
    /\ \E code \in Codes, state \in CallbackStates :
          /\ request' = [endpoint |-> "callback", code |-> code, state |-> state]
          /\ IF ExchangeRaises(code)
             THEN /\ response' = RedirectResponse([auth_error |-> TRUE])
                  /\ UNCHANGED <<user_tokens, callback_log,
                   fetchVars>>
             ELSE \E session_id \in SessionIds \ DOMAIN user_tokens :
                     /\ user_tokens' =
                            [x \in DOMAIN user_tokens \cup {session_id} |->
                                IF x = session_id THEN TokenData(code)
                                ELSE user_tokens[x]]
                     /\ callback_log' = callback_log \cup
                            {[state |-> state, session_id |-> session_id,
                              issued |-> state \in issued_states]}
                     /\ response' =
                            RedirectResponse([auth_success |-> TRUE,
                                              session_id |-> session_id])
    /\ UNCHANGED <<mergeVars, pc, run, first_result, summary, ingestVars,
                   bigquery_client, query_result, issued_states,
                   fetchVars>>

\* lines 543-626: the three get_campaigns calls raise HTTPException(500) when
\* a query fails, which is passed on; create_spreadsheet may raise too
ExportToSheets ==
    /\ pc = "serving"
    /\ \E session_id \in SessionIds \cup {"unknown"},
          queries_ok \in BOOLEAN, created \in BOOLEAN :
          /\ request' = [endpoint |-> "export", session_id |-> session_id]
          /\ response' =
                IF session_id \notin DOMAIN user_tokens THEN HTTPException(401)
                ELSE IF bigquery_client = "Client" /\ ~queries_ok
                THEN HTTPException(500)
                ELSE IF ~created THEN HTTPException(500)
                ELSE [status |-> 200, success |-> TRUE]
    /\ UNCHANGED <<mergeVars, pc, run, first_result, summary, ingestVars,
                   bigquery_client, query_result, user_tokens, issued_states,
                   callback_log,
                   fetchVars>>

NextAuth == StartupEvent \/ GoogleAuth \/ GoogleCallback \/ ExportToSheets

SpecAuth == InitApi /\ [][NextAuth]_vars

(***************************************************************************)
(* C26.  The state token protects the callback against CSRF: a callback    *)
(* stores a token and issues a session_id only when its state parameter is *)
(* a state /api/auth/google issued before; the sessions of user_tokens are *)
(* those such callbacks issued; /api/export-to-sheets succeeds only for    *)
(* one of them and answers 401 for any other session_id.                   *)
(***************************************************************************)
SessionsOfIssuedStates == {e.session_id : e \in {x \in callback_log : x.issued}}

C26_StateProtectsCallback ==
    /\ \A e \in callback_log : e.issued
    /\ DOMAIN user_tokens = SessionsOfIssuedStates
    /\ request.endpoint = "export" =>
          /\ response.status = 200 => request.session_id \in SessionsOfIssuedStates
          /\ request.session_id \notin SessionsOfIssuedStates =>
                 response.status = 401

(***************************************************************************)
(* C27.  Revenue accounting of a whole merge: the revenue of the returned  *)
(* records adds up to the lookup revenue of the matched keys whose group   *)
(* has link clicks, of the tracking-failure orphans on dates that have a   *)
(* cost-derived record, and of the legitimate orphans; the revenue of      *)
(* every other key of the lookup is in no returned record.                 *)
(***************************************************************************)
MatchedWithClicks == {k \in LookupKeys \cap CostKeys : TotalWeight(k) > 0}
RedistributedOrphans ==
    {k \in LookupKeys : TrackingFailure(k) /\ CostRecordsOn(k[2]) # {}}
LegitimateOrphanKeys == {k \in LookupKeys : Legitimate(k)}

AccountedKeys == MatchedWithClicks \cup RedistributedOrphans \cup LegitimateOrphanKeys

StoredRevenue == [k \in LookupKeys |-> Stored(k).revenue]

\* the returned records that hold revenue of key k: the records of its group,
\* the cost-derived records of its date, or the synthetic record of the key
HoldersOf(k) ==
    IF k \in MatchedWithClicks THEN GroupRecords(k)
    ELSE IF k \in RedistributedOrphans THEN CostRecordsOn(k[2])
    ELSE IF k \in LegitimateOrphanKeys THEN SyntheticFor(k)
    ELSE {}

C27_RevenueAccounting ==
    Returned =>
        /\ TotalOf(RevenueOf(merged_data)) = SumRatOver(AccountedKeys, StoredRevenue)
        /\ \A i \in DOMAIN merged_data :
              (\A k \in LookupKeys : i \notin HoldersOf(k)) =>
                  merged_data[i].revenue = RZero
        /\ \A k \in LookupKeys \ AccountedKeys :
              /\ SyntheticFor(k) = {}
              /\ ~(CollectedAsOrphan(k) /\ CostRecordsOn(k[2]) # {})
              /\ k \in CostKeys =>
                    \A i \in GroupRecords(k) : attributed_data[i].revenue = RZero

\* an accounted key beside a key with revenue > 0 that is not accounted
C27_Witness ==
    /\ Returned
    /\ meta_data # <<>>
    /\ AccountedKeys # {}
    /\ \E k \in LookupKeys \ AccountedKeys : RPos(Stored(k).revenue)
    /\ RPos(TotalOf(RevenueOf(merged_data)))
    /\ TotalOf(RevenueOf(merged_data)) # SumRatOver(LookupKeys, StoredRevenue)

(***************************************************************************)
(* C28.  Synthetic legitimate-orphan records take no part in the           *)
(* redistribution: in the returned list each has the revenue, widget       *)
(* clicks and widget searches of its own revenue aggregate, also when its  *)
(* date has tracking-failure orphans, and the shares of a date are taken   *)
(* over the cost-derived records only: their click total, or their number  *)
(* when they have no clicks, and they receive the whole orphan revenue.    *)
(***************************************************************************)
SyntheticOn(date) == {i \in Synthetic : merged_data[i].date = date}

C28_SyntheticRecordsNotRedistributed ==
    Returned =>
        /\ \A i \in Synthetic :
              LET k == <<merged_data[i].ad_set_id, merged_data[i].date>>
              IN  /\ merged_data[i].revenue = Stored(k).revenue
                  /\ merged_data[i].widget_clicks = Stored(k).widget_clicks
                  /\ merged_data[i].widget_searches = Stored(k).widget_searches
        /\ \A d \in OrphanDates :
              /\ \A i \in CostRecordsOn(d) :
                    AddedRevenue[i] =
                        RMul(OrphanRevenueOn(d),
                             IF LinkClicksOn(d) > 0
                             THEN Rat(attributed_data[i].link_clicks, LinkClicksOn(d))
                             ELSE Rat(1, Cardinality(CostRecordsOn(d))))
              /\ CostRecordsOn(d) # {} =>
                    SumRatOver(CostRecordsOn(d), AddedRevenue) = OrphanRevenueOn(d)

\* a date with a tracking-failure orphan, a legitimate orphan and one cost
\* record without clicks: the cost record gets the whole orphan revenue, not
\* half of it
C28_Witness ==
    /\ Returned
    /\ \E d \in OrphanDates :
          /\ SyntheticOn(d) # {}
          /\ Cardinality(CostRecordsOn(d)) = 1
          /\ LinkClicksOn(d) = 0
          /\ \A i \in CostRecordsOn(d) : AddedRevenue[i] = OrphanRevenueOn(d)
          /\ \A i \in SyntheticOn(d) : merged_data[i].revenue = RInt(MaxRevenue)

(***************************************************************************)
(* System1Client._fetch_from_api (system1_client.py, lines 74-205): the    *)
(* report is requested, its status polled every 30 seconds, and its        *)
(* content downloaded and parsed.  A request returns or raises.            *)
(***************************************************************************)
max_attempts == 20

\* the report_status of a status response; "None" when the key is missing
ReportStatuses == {"SUCCESS", "FAILED", "PENDING", "RUNNING", "QUEUED", "None"}

EmptyList == [kind |-> "list", rows |-> 0]

\* _parse_api_csv_response(csv_text): the records of the report
ParsedReport(rows) == [kind |-> "list", rows |-> rows]

\* mutant: the attempt is not counted
NextAttemptStuck(n) == n

\* attempt += 1
NextAttempt(n) == n + 1

InitFetch ==
    /\ meta_data = <<>>
    /\ portals = <<<<>>, <<>>>>
    /\ NoLocals
    /\ pc = "fetch"
    /\ run = 1
    /\ first_result = <<>>
    /\ NoPipeline
    /\ NoApi
    /\ fetch_pc = "request"
    /\ attempt = 0
    /\ status_requests = 0
    /\ status_data = NoStatus
    /\ fetch_result = NotReturned

\* lines 107-122: POST /partner/v1/report
RequestReport ==
    /\ fetch_pc = "request"
    /\ \E outcome \in {"raised", "no report_id", "report_id"} :
          IF outcome = "report_id"
          THEN /\ fetch_pc' = "poll"
               /\ fetch_result' = fetch_result
          ELSE /\ fetch_pc' = "returned"
               /\ fetch_result' = EmptyList
    /\ attempt' = 0
    /\ UNCHANGED <<mergeVars, pc, run, first_result, summary, ingestVars,
                   apiVars, serverVars, status_requests, status_data>>

\* what follows a SUCCESS with a content_url, lines 140-185: a request of the
\* download raises, the HTML holds no link, the content cannot be
\* decompressed or decoded (an exception the function does not catch), or the
\* report is parsed
DownloadOutcomes == {"raised", "no link", "not decodable", "parsed"}

\* lines 124-198: one pass of the polling loop
PollStatus ==
    /\ fetch_pc = "poll"
    /\ attempt < max_attempts
    /\ attempt' = NextAttempt(attempt)
    /\ status_requests' = status_requests + 1
    /\ \/ \* requests.get or raise_for_status raises
          /\ status_data' = [report_status |-> "raised", content_url |-> FALSE]
          /\ fetch_pc' = "returned"
          /\ fetch_result' = EmptyList
       \/ \E report_status \in ReportStatuses, content_url \in BOOLEAN :
             /\ status_data' = [report_status |-> report_status,
                                content_url |-> content_url]
             /\ IF report_status = "SUCCESS"
                THEN IF content_url
                     THEN \E download \in DownloadOutcomes, rows \in 0..1 :
                             IF download = "parsed"
                             THEN /\ fetch_pc' = "returned"
                                  /\ fetch_result' = ParsedReport(rows)
                             ELSE IF download = "not decodable"
                             THEN /\ fetch_pc' = "raised"
                                  /\ fetch_result' = fetch_result
                             ELSE /\ fetch_pc' = "returned"
                                  /\ fetch_result' = EmptyList
                     ELSE /\ fetch_pc' = "returned"
                          /\ fetch_result' = EmptyList
                ELSE IF report_status = "FAILED"
                THEN /\ fetch_pc' = "returned"
                     /\ fetch_result' = EmptyList
                ELSE /\ fetch_pc' = "poll"
                     /\ fetch_result' = fetch_result
    /\ UNCHANGED <<mergeVars, pc, run, first_result, summary, ingestVars,
                   apiVars, serverVars>>

\* lines 200-201: the loop ended without a return
PollTimeout ==
    /\ fetch_pc = "poll"
    /\ ~(attempt < max_attempts)
    /\ fetch_pc' = "returned"
    /\ fetch_result' = EmptyList
    /\ UNCHANGED <<mergeVars, pc, run, first_result, summary, ingestVars,
                   apiVars, serverVars, attempt, status_requests, status_data>>

NextFetch == RequestReport \/ PollStatus \/ PollTimeout

\* the function runs in one thread and every request returns or raises, so a
\* step that can be taken is taken
SpecFetch == InitFetch /\ [][NextFetch]_vars /\ WF_vars(NextFetch)

(***************************************************************************)
(* C29.  _fetch_from_api always terminates.  It issues at most 20 status   *)
(* requests; it returns a parsed report only after a status SUCCESS with a *)
(* content_url; it returns an empty list at once on FAILED, on a missing   *)
(* report_id or content_url and on a request exception; it keeps polling   *)
(* on PENDING, RUNNING or an unknown status; and it returns an empty list  *)
(* when 20 polls have passed without SUCCESS.                              *)
(***************************************************************************)
WaitingStatuses == ReportStatuses \ {"SUCCESS", "FAILED"}

FetchEnded == fetch_pc \in {"returned", "raised"}

ReturnedEmpty == fetch_pc = "returned" /\ fetch_result = EmptyList

BatchSize(b) == insert_log[b].last - insert_log[b].first + 1

BatchesOf(i) ==
    {b \in DOMAIN insert_log : insert_log[b].first <= i /\ i <= insert_log[b].last}

\* the rows of the records whose batch succeeded, in list order
RECURSIVE RowsOfSucceeded(_)
RowsOfSucceeded(i) ==
    IF i = 0 THEN <<>>
    ELSE LET b == CHOOSE x \in BatchesOf(i) : TRUE
         IN  IF insert_log[b].ok
             THEN Append(RowsOfSucceeded(i - 1), TableRow(merged_data[i]))
             ELSE RowsOfSucceeded(i - 1)

C30_BatchedIngest ==
    Ingested =>
        /\ \A i \in DOMAIN merged_data : Cardinality(BatchesOf(i)) = 1
        /\ \A b \in DOMAIN insert_log :
              /\ BatchSize(b) >= 1 /\ BatchSize(b) <= 50
              /\ insert_log[b].first = IF b = 1 THEN 1 ELSE insert_log[b - 1].last + 1
              /\ b < Len(insert_log) => BatchSize(b) = 50
        /\ insert_log # <<>> => insert_log[Len(insert_log)].last = Len(merged_data)
        /\ merged_data = <<>> => insert_log = <<>>
        /\ inserted_count =
              SumIntOver({b \in DOMAIN insert_log : insert_log[b].ok},
                         [b \in DOMAIN insert_log |-> BatchSize(b)])
        /\ metrics_table =
              (IF reset_table THEN <<>> ELSE table_before)
                  \o RowsOfSucceeded(Len(merged_data))

\* 101 records in batches of 50, 50 and 1; the second INSERT fails
C30_Witness ==
    /\ Ingested
    /\ Len(merged_data) = 101
    /\ Len(insert_log) = 3
    /\ insert_log[1].ok /\ ~insert_log[2].ok /\ insert_log[3].ok
    /\ inserted_count = 51
    /\ ~reset_table
    /\ Len(metrics_table) = Len(table_before) + 51


=============================================================================
